---- MODULE Spec2Model ----
(***************************************************************************)
(* A model of the Kapowarr core: the volume scan that binds files to       *)
(* issues (file_matching.scan_files), the Transmission adapter's stall     *)
(* detection, the rename planner, the volume-wide auto search and the      *)
(* HTTP shell (authentication and error mapping).                          *)
(*                                                                         *)
(* Each subsystem has its own specification (SpecScan, SpecTorrent, ...).  *)
(* The variables of the other subsystems keep their initial value there.   *)
(***************************************************************************)
EXTENDS Integers, Sequences, FiniteSets, TLC

VARIABLES
    \* ---- file pipeline: scan ----
    disk,               \* filepath -> size of the file in the volume folder, 0 = no such file
    folder_exists,      \* isdir(volume_data.folder)
    tbl_files,          \* table files: rows [id, filepath, size]
    tbl_issues_files,   \* table issues_files: rows <<file_id, issue_id>>
    tbl_volume_files,   \* table volume_files: rows [file_id, file_type]
    monitored,          \* issues.monitored, per issue id
    settings,           \* the settings the scan reads
    last_scan,          \* what the last scan_files call saw and emitted
    world,              \* the files and file sizes that occur in this run
    \* ---- download orchestrator: the Transmission adapter ----
    now,                \* time(), in ticks of 1/TicksPerSec second
    torrent_present,    \* the client has the torrent
    torrent_hashes,     \* Transmission.torrent_hashes: hash -> failing_since stamp
    failing_download_timeout,   \* settings.sv.failing_download_timeout, seconds
    run_start,          \* time of the first of the stalled observations made since
                        \* the last observation that was not stalled, -1 if none
    ever_added,         \* add_download has returned the handle at some time
    adding_hashes,      \* torrent_hashes of the instance, had it never restarted
    last_call,          \* the last adapter call and what it returned
    \* ---- file pipeline: renaming the files of one volume ----
    vol_folder,         \* volumes.folder
    custom_folder,      \* volumes.custom_folder
    dirs,               \* the volume folders that exist on disk
    fs_files,           \* the paths of the files on disk
    db_files,           \* the files of the volume: rows [filepath, issue]
    last_rename,        \* the last preview or rename and what it returned
    \* ---- search aggregator: automatic search of one volume ----
    open_issues,        \* Volume.get_open_issues: monitored and without file
    source_results,     \* the matching results the sources hold for the
                        \* volume, in the order the sources give them
    last_search,        \* the last auto_search and what it returned
    \* ---- HTTP shell ----
    api_key,            \* Settings().sv.api_key: the number of the key in use
    auth_password,      \* Settings().sv.auth_password
    last_response,      \* the last request and the answer to it
    \* ---- root folders ----
    root_folders,       \* table root_folders: rows [id, folder]
    volume_root,        \* volumes.root_folder of the volume, 0 = no volume
    last_root,          \* the last RootFolders call and how it ended
    \* ---- catalog adapter: the bulk fetches of ComicVine ----
    cv_budget,          \* the requests the catalog answers before its rate limit
    last_fetch,         \* the last bulk fetch and how it ended
    \* ---- search aggregator: the searches of all sources for several queries ----
    search_answers,     \* <<source, query>> -> what the search of the source gives
    last_queries,       \* the last search_multiple_queries and how it ended
    \* ---- file pipeline: converting the files of one volume ----
    conv_files,         \* the files <<name, format>> of the volume, on disk and in the library
    extract_folders,    \* the archives whose extraction folder exists
    last_convert,       \* the last selection or conversion and how it ended
    \* ---- event bus: the websocket and the queue of the worker processes ----
    ws_emitted,         \* the number of events emitted while the task runs
    ws_queue,           \* the SimpleQueue of MPWebSocketQueue: messages [host_id, event]
    ws_delivered,       \* subscriber -> the events delivered to it, in order
    \* ---- HTTP wrapper: one call of AsyncSession._request ----
    rq_round,           \* the round of the loop that runs next, 0 = no call runs
    rq_sleep_time,      \* sleep_time, in units of BACKOFF_FACTOR_RETRIES
    rq_requests,        \* the underlying requests the call has issued
    rq_retries,         \* for each retry: the answer before it and the wait
    rq_result,          \* how the call ended
    \* ---- Ranker: the keys of the results of one search ----
    rk_search,          \* the search the results are of
    rk_results,         \* the annotated results
    rk_keys,            \* the key of each result, <<>> before the sort
    \* ---- Matching: one call of match_volume_number ----
    mv_call,            \* the arguments of the call
    mv_result,          \* what the call returned, "none" before it
    \* ---- Naming formats: one call of check_mock_filename ----
    nm_namings,         \* the format of each naming kind
    nm_result,          \* how the call ended, "none" before it
    \* ---- Transmission: the login probe of Transmission.test ----
    tl_probe,           \* the credentials and what the client answers
    tl_result,          \* how test ended, "none" before it
    \* ---- extract_files_from_folder: the volume folder and the extraction folder ----
    ex_fs,              \* the files in the volume folder, with their content
    ex_last,            \* the last call of extract_files_from_folder
    \* ---- The conversion pool ----
    pool_phase,         \* how far the conversion of each archive is
    pool_folders,       \* for each extraction folder, the archives whose files lie in it
    pool_packed,        \* for each archive, whose files its conversion packed
    \* ---- Transmission: one call of __api_request ----
    rpc_method,         \* the RPC method of the call, "none" before the first
    rpc_for_login,      \* the argument for_login
    rpc_sid,            \* the X-Transmission-Session-Id header of the session, 0 = not set
    rpc_requests,       \* the requests the call has issued
    rpc_result,         \* "running", or how the call ended
    \* ---- Start types: the revert timer of the hosting settings ----
    tm_timers,          \* the Timer threads: position in Timer.run and the finished event
    tm_timeout_thread,  \* StartTypeHandlers.timeout_thread, 0 = None
    tm_running_handler, \* StartTypeHandlers.running_handler, "none" = None
    tm_port,            \* the hosting setting in force
    tm_backup_port,     \* the backup of the hosting setting
    tm_start_type,      \* the start type of a pending restart, "none" = None
    tm_request,         \* the request thread's position in diffuse_timer
    tm_diffused         \* the timers for which diffuse_timer has cancelled and returned

scanVars == <<disk, folder_exists, tbl_files, tbl_issues_files,
              tbl_volume_files, monitored, settings, last_scan, world>>

torrentVars == <<now, torrent_present, torrent_hashes,
                 failing_download_timeout, run_start, ever_added,
                 adding_hashes, last_call>>

renameVars == <<vol_folder, custom_folder, dirs, fs_files, db_files,
                last_rename>>

searchVars == <<open_issues, source_results, last_search>>

apiVars == <<api_key, auth_password, last_response>>

rootVars == <<root_folders, volume_root, last_root>>

catalogVars == <<cv_budget, last_fetch>>

queriesVars == <<search_answers, last_queries>>

convertVars == <<conv_files, extract_folders, last_convert>>

wsVars == <<ws_emitted, ws_queue, ws_delivered>>

rqVars == <<rq_round, rq_sleep_time, rq_requests, rq_retries, rq_result>>

rankVars == <<rk_search, rk_results, rk_keys>>

matchVars == <<mv_call, mv_result>>

namingVars == <<nm_namings, nm_result>>

loginVars == <<tl_probe, tl_result>>

extractVars == <<ex_fs, ex_last>>

poolVars == <<pool_phase, pool_folders, pool_packed>>

rpcVars == <<rpc_method, rpc_for_login, rpc_sid, rpc_requests, rpc_result>>

timerVars == <<tm_timers, tm_timeout_thread, tm_running_handler, tm_port,
    tm_backup_port, tm_start_type, tm_request, tm_diffused>>

vars == <<scanVars, torrentVars, renameVars, searchVars, apiVars, rootVars,
    catalogVars, queriesVars, convertVars, wsVars, rqVars, rankVars,
    matchVars, namingVars, loginVars, extractVars, poolVars, rpcVars,
    timerVars>>

nonScanVars == <<torrentVars, renameVars, searchVars, apiVars, rootVars,
    catalogVars, queriesVars, convertVars, wsVars, rqVars, rankVars,
    matchVars, namingVars, loginVars, extractVars, poolVars, rpcVars,
    timerVars>>
nonTorrentVars == <<scanVars, renameVars, searchVars, apiVars, rootVars,
    catalogVars, queriesVars, convertVars, wsVars, rqVars, rankVars,
    matchVars, namingVars, loginVars, extractVars, poolVars, rpcVars,
    timerVars>>
nonRenameVars == <<scanVars, torrentVars, searchVars, apiVars, rootVars,
    catalogVars, queriesVars, convertVars, wsVars, rqVars, rankVars,
    matchVars, namingVars, loginVars, extractVars, poolVars, rpcVars,
    timerVars>>
nonSearchVars == <<scanVars, torrentVars, renameVars, apiVars, rootVars,
    catalogVars, queriesVars, convertVars, wsVars, rqVars, rankVars,
    matchVars, namingVars, loginVars, extractVars, poolVars, rpcVars,
    timerVars>>
nonApiVars == <<scanVars, torrentVars, renameVars, searchVars, rootVars,
    catalogVars, queriesVars, convertVars, wsVars, rqVars, rankVars,
    matchVars, namingVars, loginVars, extractVars, poolVars, rpcVars,
    timerVars>>
nonRootVars == <<scanVars, torrentVars, renameVars, searchVars, apiVars,
    catalogVars, queriesVars, convertVars, wsVars, rqVars, rankVars,
    matchVars, namingVars, loginVars, extractVars, poolVars, rpcVars,
    timerVars>>
nonCatalogVars == <<scanVars, torrentVars, renameVars, searchVars, apiVars,
    rootVars, queriesVars, convertVars, wsVars, rqVars, rankVars,
    matchVars, namingVars, loginVars, extractVars, poolVars, rpcVars,
    timerVars>>
nonQueriesVars == <<scanVars, torrentVars, renameVars, searchVars, apiVars,
    rootVars, catalogVars, convertVars, wsVars, rqVars, rankVars,
    matchVars, namingVars, loginVars, extractVars, poolVars, rpcVars,
    timerVars>>
nonConvertVars == <<scanVars, torrentVars, renameVars, searchVars, apiVars,
    rootVars, catalogVars, queriesVars, wsVars, rqVars, rankVars,
    matchVars, namingVars, loginVars, extractVars, poolVars, rpcVars,
    timerVars>>
nonWsVars == <<scanVars, torrentVars, renameVars, searchVars, apiVars,
    rootVars, catalogVars, queriesVars, convertVars, rqVars, rankVars,
    matchVars, namingVars, loginVars, extractVars, poolVars, rpcVars,
    timerVars>>
nonRqVars == <<scanVars, torrentVars, renameVars, searchVars, apiVars,
    rootVars, catalogVars, queriesVars, convertVars, wsVars, rankVars,
    matchVars, namingVars, loginVars, extractVars, poolVars, rpcVars,
    timerVars>>
nonRankVars == <<scanVars, torrentVars, renameVars, searchVars, apiVars,
    rootVars, catalogVars, queriesVars, convertVars, wsVars, rqVars,
    matchVars, namingVars, loginVars, extractVars, poolVars, rpcVars,
    timerVars>>
nonMatchVars == <<scanVars, torrentVars, renameVars, searchVars, apiVars,
    rootVars, catalogVars, queriesVars, convertVars, wsVars, rqVars,
    rankVars, namingVars, loginVars, extractVars, poolVars, rpcVars,
    timerVars>>
nonNamingVars == <<scanVars, torrentVars, renameVars, searchVars, apiVars,
    rootVars, catalogVars, queriesVars, convertVars, wsVars, rqVars,
    rankVars, matchVars, loginVars, extractVars, poolVars, rpcVars,
    timerVars>>
nonLoginVars == <<scanVars, torrentVars, renameVars, searchVars, apiVars,
    rootVars, catalogVars, queriesVars, convertVars, wsVars, rqVars,
    rankVars, matchVars, namingVars, extractVars, poolVars, rpcVars,
    timerVars>>
nonExtractVars == <<scanVars, torrentVars, renameVars, searchVars, apiVars,
    rootVars, catalogVars, queriesVars, convertVars, wsVars, rqVars,
    rankVars, matchVars, namingVars, loginVars, poolVars, rpcVars, timerVars>>
nonPoolVars == <<scanVars, torrentVars, renameVars, searchVars, apiVars,
    rootVars, catalogVars, queriesVars, convertVars, wsVars, rqVars,
    rankVars, matchVars, namingVars, loginVars, extractVars, rpcVars,
    timerVars>>
nonRpcVars == <<scanVars, torrentVars, renameVars, searchVars, apiVars,
    rootVars, catalogVars, queriesVars, convertVars, wsVars, rqVars,
    rankVars, matchVars, namingVars, loginVars, extractVars, poolVars,
    timerVars>>
nonTimerVars == <<scanVars, torrentVars, renameVars, searchVars, apiVars,
    rootVars, catalogVars, queriesVars, convertVars, wsVars, rqVars,
    rankVars, matchVars, namingVars, loginVars, extractVars, poolVars,
    rpcVars>>

None == "None"

(***************************************************************************)
(* Small helpers over sets and sequences.                                  *)
(***************************************************************************)
Max(S) == CHOOSE x \in S : \A y \in S : y <= x

Range(s) == {s[i] : i \in 1..Len(s)}

NoDuplicates(s) == \A i, j \in 1..Len(s) : s[i] = s[j] => i = j

\* The rows <<a, b>> of a set of integer pairs, ordered by a, then b.
RECURSIVE PairsInOrder(_)
PairsInOrder(S) ==
    IF S = {} THEN <<>>
    ELSE LET m == CHOOSE x \in S :
                    \A y \in S : x[1] < y[1] \/ (x[1] = y[1] /\ x[2] <= y[2])
         IN  <<m>> \o PairsInOrder(S \ {m})

(***************************************************************************)
(* Bounds of the scan model.                                               *)
(***************************************************************************)
NumIssues == 2
MaxSize == 2

Issues == 1..NumIssues
Sizes == 1..MaxSize

(***************************************************************************)
(* The files that can lie in the volume folder.  FileInfo is the outcome   *)
(* of extract_filename_data and file_importing_filter for each of them     *)
(* and the branch of the scan loop the file takes.                         *)
(***************************************************************************)
FolderOrder == <<"cover.jpg", "i1-2.cbz", "i1.cbz">>

Paths == Range(FolderOrder)

FileInfo(file) ==
    CASE file = "cover.jpg" -> [kind |-> "cover", lo |-> 0, hi |-> 0]
      [] file = "i1-2.cbz"  -> [kind |-> "issue", lo |-> 1, hi |-> 2]
      [] file = "i1.cbz"    -> [kind |-> "issue", lo |-> 1, hi |-> 1]
      [] OTHER              -> [kind |-> "reject", lo |-> 0, hi |-> 0]

\* list_files(folder, ext): the files in the folder, in directory order.
list_files(d) == SelectSeq(FolderOrder, LAMBDA p : d[p] # 0)

\* An iteration that ignores the filter.
unfiltered_iter(elements, collection) == elements

\* filtered_iter(elements, collection): all elements if the filter is empty.
check_filter(element, collection) ==
    IF collection = {} THEN TRUE ELSE element \in collection

filtered_iter(elements, collection) ==
    SelectSeq(elements, LAMBDA el : check_filter(el, collection))

\* Volume.get_issues_in_range: the issues of the volume whose calculated
\* issue number lies in [lo, hi], ordered by number.
RECURSIVE get_issues_in_range(_, _)
get_issues_in_range(lo, hi) ==
    IF lo > hi THEN <<>>
    ELSE (IF lo \in Issues THEN <<lo>> ELSE <<>>) \o get_issues_in_range(lo + 1, hi)

\* Volume.get_all_files as the dict {filepath: id} built by scan_files: the
\* files linked to the volume by an issue link or by a volume link.
LinkedIds(ifs, vfs) == {b[1] : b \in ifs} \cup {v.file_id : v \in vfs}

get_all_files(files, ifs, vfs) ==
    LET rows == {r \in files : r.id \in LinkedIds(ifs, vfs)}
    IN  [p \in {r.filepath : r \in rows} |->
            (CHOOSE r \in rows : r.filepath = p).id]

(***************************************************************************)
(* FilesDB.add_file: INSERT OR IGNORE on the unique filepath, and the id   *)
(* of the row with that filepath is returned.  A row is keyed by its       *)
(* unique filepath and no code reads the value of an id, so the rowid that *)
(* sqlite hands out is named after the path: the position of the path in   *)
(* FolderOrder.                                                            *)
(***************************************************************************)
add_file_id(files, filepath) ==
    IF \E r \in files : r.filepath = filepath
    THEN (CHOOSE r \in files : r.filepath = filepath).id
    ELSE CHOOSE i \in 1..Len(FolderOrder) : FolderOrder[i] = filepath

add_file(files, filepath, size) ==
    IF \E r \in files : r.filepath = filepath
    THEN files
    ELSE files \cup {[id |-> add_file_id(files, filepath),
                      filepath |-> filepath, size |-> size]}

\* FilesDB.delete_unmatched_files: rows referenced by neither link table go.
delete_unmatched_files(files, ifs, vfs) ==
    {r \in files : r.id \in LinkedIds(ifs, vfs)}

(***************************************************************************)
(* The loop of scan_files over the folder contents.  acc carries the       *)
(* files table, the dict volume_files and the two lists of bindings.       *)
(***************************************************************************)
RECURSIVE IssueBindings(_, _)
IssueBindings(file_id, matching_issues) ==
    IF matching_issues = <<>> THEN <<>>
    ELSE <<(<<file_id, Head(matching_issues)>>)>>
            \o IssueBindings(file_id, Tail(matching_issues))

RECURSIVE ScanLoop(_, _, _)
ScanLoop(todo, d, acc) ==
    IF todo = <<>> THEN acc
    ELSE
      LET file == Head(todo)
          info == FileInfo(file)
          withFile ==
              IF file \in DOMAIN acc.volume_files THEN acc
              ELSE [acc EXCEPT
                      !.files = add_file(acc.files, file, d[file]),
                      !.volume_files =
                          (file :> add_file_id(acc.files, file)) @@ acc.volume_files]
          file_id == withFile.volume_files[file]
          matching_issues == get_issues_in_range(info.lo, info.hi)
      IN
        CASE info.kind = "cover" ->
               ScanLoop(Tail(todo), d,
                   [withFile EXCEPT !.general_bindings =
                       Append(@, [file_id |-> file_id, file_type |-> "cover"])])
          [] info.kind = "metadata" ->
               ScanLoop(Tail(todo), d,
                   [withFile EXCEPT !.general_bindings =
                       Append(@, [file_id |-> file_id, file_type |-> "metadata"])])
          [] info.kind = "issue" /\ matching_issues # <<>> ->
               ScanLoop(Tail(todo), d,
                   [withFile EXCEPT !.bindings =
                       @ \o IssueBindings(file_id, matching_issues)])
          [] OTHER -> ScanLoop(Tail(todo), d, acc)

(***************************************************************************)
(* The accounting of scan_files: which issues are newly downloaded and     *)
(* which are no longer downloaded.                                         *)
(***************************************************************************)
RECURSIVE CountBindings(_, _)
CountBindings(current_bindings, count) ==
    IF current_bindings = <<>> THEN count
    ELSE LET issue_id == Head(current_bindings)[2]
         IN  CountBindings(Tail(current_bindings),
                           [count EXCEPT ![issue_id] = @ + 1])

\* NewlyDownloaded without the count of the bindings added so far: an issue
\* that gets two files in one scan is then listed twice.
RECURSIVE NewlyDownloadedNoCount(_, _, _)
NewlyDownloadedNoCount(add_bindings, count, list) ==
    IF add_bindings = <<>> THEN [count |-> count, list |-> list]
    ELSE LET issue_id == Head(add_bindings)[2]
         IN  NewlyDownloadedNoCount(
                 Tail(add_bindings),
                 count,
                 IF count[issue_id] = 0 THEN Append(list, issue_id) ELSE list)

\* The loop over add_bindings; returns the counts and the list of issues.
RECURSIVE NewlyDownloaded(_, _, _)
NewlyDownloaded(add_bindings, count, list) ==
    IF add_bindings = <<>> THEN [count |-> count, list |-> list]
    ELSE LET issue_id == Head(add_bindings)[2]
         IN  NewlyDownloaded(
                 Tail(add_bindings),
                 [count EXCEPT ![issue_id] = @ + 1],
                 IF count[issue_id] = 0 THEN Append(list, issue_id) ELSE list)

RECURSIVE DeletedDownloaded(_, _, _)
DeletedDownloaded(delete_bindings, count, list) ==
    IF delete_bindings = <<>> THEN [count |-> count, list |-> list]
    ELSE LET issue_id == Head(delete_bindings)[2]
         IN  DeletedDownloaded(
                 Tail(delete_bindings),
                 [count EXCEPT ![issue_id] = @ - 1],
                 IF count[issue_id] - 1 = 0 THEN Append(list, issue_id) ELSE list)

NoEvent == [type |-> "none"]

DownloadedStatusEvent(not_downloaded_issues, downloaded_issues) ==
    [type |-> "downloaded_status",
     not_downloaded_issues |-> not_downloaded_issues,
     downloaded_issues |-> downloaded_issues]

\* The event scan_files emits, if any.
ScanEvent(update_websocket, filepath_filter, deleted, newly) ==
    IF ~update_websocket THEN NoEvent
    ELSE IF filepath_filter = {} /\ (deleted # <<>> \/ newly # <<>>)
         THEN DownloadedStatusEvent(deleted, newly)
    ELSE IF filepath_filter # {} /\ newly # <<>>
         THEN DownloadedStatusEvent(<<>>, newly)
    ELSE NoEvent

\* The size refresh at the end of scan_files: one stat per issue binding.
UpdateSizes(files, bindings, d) ==
    {IF \E i \in 1..Len(bindings) : bindings[i][1] = r.id
        THEN [r EXCEPT !.size = d[r.filepath]]
        ELSE r : r \in files}

DownloadedIssues(ifs) == {b[2] : b \in ifs}

NoScan == [done |-> FALSE]

(***************************************************************************)
(* The state of a subsystem that takes no part in a specification.         *)
(***************************************************************************)
NoCall == [op |-> "none"]

IdleTorrentVars ==
    /\ now = 0
    /\ torrent_present = FALSE
    /\ torrent_hashes = <<>>
    /\ failing_download_timeout = 0
    /\ run_start = -1
    /\ ever_added = FALSE
    /\ adding_hashes = <<>>
    /\ last_call = NoCall

NoRename == [op |-> "none"]

IdleRenameVars ==
    /\ vol_folder = "Old"
    /\ custom_folder = FALSE
    /\ dirs = {}
    /\ fs_files = {}
    /\ db_files = {}
    /\ last_rename = NoRename

NoSearch == [op |-> "none"]

IdleSearchVars ==
    /\ open_issues = {}
    /\ source_results = <<>>
    /\ last_search = NoSearch

NoRequest == [op |-> "none"]

IdleApiVars ==
    /\ api_key = 1
    /\ auth_password = ""
    /\ last_response = NoRequest

IdleScanVars ==
    /\ disk = [p \in Paths |-> 0]
    /\ folder_exists = TRUE
    /\ tbl_files = {}
    /\ tbl_issues_files = {}
    /\ tbl_volume_files = {}
    /\ monitored = [i \in Issues |-> TRUE]
    /\ settings = [create_empty_volume_folders |-> FALSE,
                   unmonitor_deleted_issues |-> FALSE,
                   delete_empty_folders |-> FALSE]
    /\ last_scan = NoScan
    /\ world = [paths |-> {}, sizes |-> {}]

NoRootCall == [op |-> "none"]

IdleRootVars ==
    /\ root_folders = {}
    /\ volume_root = 0
    /\ last_root = NoRootCall

NoFetch == [op |-> "none"]

IdleCatalogVars ==
    /\ cv_budget = 0
    /\ last_fetch = NoFetch

NoQueries == [op |-> "none"]

IdleQueriesVars ==
    /\ search_answers = <<>>
    /\ last_queries = NoQueries

NoConversion == [op |-> "none"]

IdleConvertVars ==
    /\ conv_files = {}
    /\ extract_folders = {}
    /\ last_convert = NoConversion

IdleWsVars ==
    /\ ws_emitted = 0
    /\ ws_queue = <<>>
    /\ ws_delivered = <<>>

IdleRqVars ==
    /\ rq_round = 0
    /\ rq_sleep_time = 0
    /\ rq_requests = 0
    /\ rq_retries = <<>>
    /\ rq_result = "none"

IdleRankVars ==
    /\ rk_search = <<>>
    /\ rk_results = {}
    /\ rk_keys = <<>>

IdleMatchVars ==
    /\ mv_call = <<>>
    /\ mv_result = "none"

IdleNamingVars ==
    /\ nm_namings = <<>>
    /\ nm_result = "none"

IdleLoginVars ==
    /\ tl_probe = <<>>
    /\ tl_result = "none"

IdleExtractVars ==
    /\ ex_fs = {}
    /\ ex_last = [op |-> "none"]

IdlePoolVars ==
    /\ pool_phase = <<>>
    /\ pool_folders = <<>>
    /\ pool_packed = <<>>

IdleRpcVars ==
    /\ rpc_method = "none"
    /\ rpc_for_login = FALSE
    /\ rpc_sid = 0
    /\ rpc_requests = 0
    /\ rpc_result = "none"

IdleTimerVars ==
    /\ tm_timers = <<>>
    /\ tm_timeout_thread = 0
    /\ tm_running_handler = "none"
    /\ tm_port = 0
    /\ tm_backup_port = 0
    /\ tm_start_type = "none"
    /\ tm_request = <<>>
    /\ tm_diffused = {}

IdleNonScanVars == IdleTorrentVars /\ IdleRenameVars /\ IdleSearchVars /\
    IdleApiVars /\ IdleRootVars /\ IdleCatalogVars /\ IdleQueriesVars /\
    IdleConvertVars /\ IdleWsVars /\ IdleRqVars /\ IdleRankVars /\
    IdleMatchVars /\ IdleNamingVars /\ IdleLoginVars /\ IdleExtractVars /\
    IdlePoolVars /\ IdleRpcVars /\ IdleTimerVars

IdleNonTorrentVars == IdleScanVars /\ IdleRenameVars /\ IdleSearchVars /\
    IdleApiVars /\ IdleRootVars /\ IdleCatalogVars /\ IdleQueriesVars /\
    IdleConvertVars /\ IdleWsVars /\ IdleRqVars /\ IdleRankVars /\
    IdleMatchVars /\ IdleNamingVars /\ IdleLoginVars /\ IdleExtractVars /\
    IdlePoolVars /\ IdleRpcVars /\ IdleTimerVars

IdleNonRenameVars == IdleScanVars /\ IdleTorrentVars /\ IdleSearchVars /\
    IdleApiVars /\ IdleRootVars /\ IdleCatalogVars /\ IdleQueriesVars /\
    IdleConvertVars /\ IdleWsVars /\ IdleRqVars /\ IdleRankVars /\
    IdleMatchVars /\ IdleNamingVars /\ IdleLoginVars /\ IdleExtractVars /\
    IdlePoolVars /\ IdleRpcVars /\ IdleTimerVars

IdleNonSearchVars == IdleScanVars /\ IdleTorrentVars /\ IdleRenameVars /\
    IdleApiVars /\ IdleRootVars /\ IdleCatalogVars /\ IdleQueriesVars /\
    IdleConvertVars /\ IdleWsVars /\ IdleRqVars /\ IdleRankVars /\
    IdleMatchVars /\ IdleNamingVars /\ IdleLoginVars /\ IdleExtractVars /\
    IdlePoolVars /\ IdleRpcVars /\ IdleTimerVars

IdleNonApiVars == IdleScanVars /\ IdleTorrentVars /\ IdleRenameVars /\
    IdleSearchVars /\ IdleRootVars /\ IdleCatalogVars /\ IdleQueriesVars /\
    IdleConvertVars /\ IdleWsVars /\ IdleRqVars /\ IdleRankVars /\
    IdleMatchVars /\ IdleNamingVars /\ IdleLoginVars /\ IdleExtractVars /\
    IdlePoolVars /\ IdleRpcVars /\ IdleTimerVars

IdleNonRootVars == IdleScanVars /\ IdleTorrentVars /\ IdleRenameVars /\
    IdleSearchVars /\ IdleApiVars /\ IdleCatalogVars /\ IdleQueriesVars /\
    IdleConvertVars /\ IdleWsVars /\ IdleRqVars /\ IdleRankVars /\
    IdleMatchVars /\ IdleNamingVars /\ IdleLoginVars /\ IdleExtractVars /\
    IdlePoolVars /\ IdleRpcVars /\ IdleTimerVars

IdleNonCatalogVars == IdleScanVars /\ IdleTorrentVars /\ IdleRenameVars /\
    IdleSearchVars /\ IdleApiVars /\ IdleRootVars /\ IdleQueriesVars /\
    IdleConvertVars /\ IdleWsVars /\ IdleRqVars /\ IdleRankVars /\
    IdleMatchVars /\ IdleNamingVars /\ IdleLoginVars /\ IdleExtractVars /\
    IdlePoolVars /\ IdleRpcVars /\ IdleTimerVars

IdleNonQueriesVars == IdleScanVars /\ IdleTorrentVars /\ IdleRenameVars /\
    IdleSearchVars /\ IdleApiVars /\ IdleRootVars /\ IdleCatalogVars /\
    IdleConvertVars /\ IdleWsVars /\ IdleRqVars /\ IdleRankVars /\
    IdleMatchVars /\ IdleNamingVars /\ IdleLoginVars /\ IdleExtractVars /\
    IdlePoolVars /\ IdleRpcVars /\ IdleTimerVars

IdleNonConvertVars == IdleScanVars /\ IdleTorrentVars /\ IdleRenameVars /\
    IdleSearchVars /\ IdleApiVars /\ IdleRootVars /\ IdleCatalogVars /\
    IdleQueriesVars /\ IdleWsVars /\ IdleRqVars /\ IdleRankVars /\
    IdleMatchVars /\ IdleNamingVars /\ IdleLoginVars /\ IdleExtractVars /\
    IdlePoolVars /\ IdleRpcVars /\ IdleTimerVars

IdleNonWsVars == IdleScanVars /\ IdleTorrentVars /\ IdleRenameVars /\
    IdleSearchVars /\ IdleApiVars /\ IdleRootVars /\ IdleCatalogVars /\
    IdleQueriesVars /\ IdleConvertVars /\ IdleRqVars /\ IdleRankVars /\
    IdleMatchVars /\ IdleNamingVars /\ IdleLoginVars /\ IdleExtractVars /\
    IdlePoolVars /\ IdleRpcVars /\ IdleTimerVars

IdleNonRqVars == IdleScanVars /\ IdleTorrentVars /\ IdleRenameVars /\
    IdleSearchVars /\ IdleApiVars /\ IdleRootVars /\ IdleCatalogVars /\
    IdleQueriesVars /\ IdleConvertVars /\ IdleWsVars /\ IdleRankVars /\
    IdleMatchVars /\ IdleNamingVars /\ IdleLoginVars /\ IdleExtractVars /\
    IdlePoolVars /\ IdleRpcVars /\ IdleTimerVars

IdleNonRankVars == IdleScanVars /\ IdleTorrentVars /\ IdleRenameVars /\
    IdleSearchVars /\ IdleApiVars /\ IdleRootVars /\ IdleCatalogVars /\
    IdleQueriesVars /\ IdleConvertVars /\ IdleWsVars /\ IdleRqVars /\
    IdleMatchVars /\ IdleNamingVars /\ IdleLoginVars /\ IdleExtractVars /\
    IdlePoolVars /\ IdleRpcVars /\ IdleTimerVars

IdleNonMatchVars == IdleScanVars /\ IdleTorrentVars /\ IdleRenameVars /\
    IdleSearchVars /\ IdleApiVars /\ IdleRootVars /\ IdleCatalogVars /\
    IdleQueriesVars /\ IdleConvertVars /\ IdleWsVars /\ IdleRqVars /\
    IdleRankVars /\ IdleNamingVars /\ IdleLoginVars /\ IdleExtractVars /\
    IdlePoolVars /\ IdleRpcVars /\ IdleTimerVars

IdleNonNamingVars == IdleScanVars /\ IdleTorrentVars /\ IdleRenameVars /\
    IdleSearchVars /\ IdleApiVars /\ IdleRootVars /\ IdleCatalogVars /\
    IdleQueriesVars /\ IdleConvertVars /\ IdleWsVars /\ IdleRqVars /\
    IdleRankVars /\ IdleMatchVars /\ IdleLoginVars /\ IdleExtractVars /\
    IdlePoolVars /\ IdleRpcVars /\ IdleTimerVars

IdleNonLoginVars == IdleScanVars /\ IdleTorrentVars /\ IdleRenameVars /\
    IdleSearchVars /\ IdleApiVars /\ IdleRootVars /\ IdleCatalogVars /\
    IdleQueriesVars /\ IdleConvertVars /\ IdleWsVars /\ IdleRqVars /\
    IdleRankVars /\ IdleMatchVars /\ IdleNamingVars /\ IdleExtractVars /\
    IdlePoolVars /\ IdleRpcVars /\ IdleTimerVars

IdleNonExtractVars == IdleScanVars /\ IdleTorrentVars /\ IdleRenameVars /\
    IdleSearchVars /\ IdleApiVars /\ IdleRootVars /\ IdleCatalogVars /\
    IdleQueriesVars /\ IdleConvertVars /\ IdleWsVars /\ IdleRqVars /\
    IdleRankVars /\ IdleMatchVars /\ IdleNamingVars /\ IdleLoginVars /\
    IdlePoolVars /\ IdleRpcVars /\ IdleTimerVars

IdleNonPoolVars == IdleScanVars /\ IdleTorrentVars /\ IdleRenameVars /\
    IdleSearchVars /\ IdleApiVars /\ IdleRootVars /\ IdleCatalogVars /\
    IdleQueriesVars /\ IdleConvertVars /\ IdleWsVars /\ IdleRqVars /\
    IdleRankVars /\ IdleMatchVars /\ IdleNamingVars /\ IdleLoginVars /\
    IdleExtractVars /\ IdleRpcVars /\ IdleTimerVars

IdleNonRpcVars == IdleScanVars /\ IdleTorrentVars /\ IdleRenameVars /\
    IdleSearchVars /\ IdleApiVars /\ IdleRootVars /\ IdleCatalogVars /\
    IdleQueriesVars /\ IdleConvertVars /\ IdleWsVars /\ IdleRqVars /\
    IdleRankVars /\ IdleMatchVars /\ IdleNamingVars /\ IdleLoginVars /\
    IdleExtractVars /\ IdlePoolVars /\ IdleTimerVars

IdleNonTimerVars == IdleScanVars /\ IdleTorrentVars /\ IdleRenameVars /\
    IdleSearchVars /\ IdleApiVars /\ IdleRootVars /\ IdleCatalogVars /\
    IdleQueriesVars /\ IdleConvertVars /\ IdleWsVars /\ IdleRqVars /\
    IdleRankVars /\ IdleMatchVars /\ IdleNamingVars /\ IdleLoginVars /\
    IdleExtractVars /\ IdlePoolVars /\ IdleRpcVars

(***************************************************************************)
(* Initial state: an empty library, an existing empty volume folder.       *)
(***************************************************************************)
InitScanVars ==
    /\ disk = [p \in Paths |-> 0]
    /\ folder_exists = TRUE
    /\ tbl_files = {}
    /\ tbl_issues_files = {}
    /\ tbl_volume_files = {}
    /\ monitored = [i \in Issues |-> TRUE]
    /\ settings \in [create_empty_volume_folders : BOOLEAN,
                     unmonitor_deleted_issues : BOOLEAN,
                     delete_empty_folders : BOOLEAN]
    /\ last_scan = NoScan

(***************************************************************************)
(* The world around the scan: files are written to and removed from the    *)
(* volume folder, the folder itself is removed.                            *)
(***************************************************************************)
WriteFile ==
    \E p \in world.paths, s \in world.sizes :
        /\ disk[p] # s
        /\ disk' = [disk EXCEPT ![p] = s]
        /\ folder_exists' = TRUE
        /\ last_scan' = NoScan
        /\ UNCHANGED <<tbl_files, tbl_issues_files, tbl_volume_files,
                       monitored, settings, world>>
        /\ UNCHANGED nonScanVars

RemoveFile ==
    \E p \in Paths :
        /\ disk[p] # 0
        /\ disk' = [disk EXCEPT ![p] = 0]
        /\ last_scan' = NoScan
        /\ UNCHANGED <<folder_exists, tbl_files, tbl_issues_files,
                       tbl_volume_files, monitored, settings, world>>
        /\ UNCHANGED nonScanVars

RemoveFolder ==
    /\ folder_exists
    /\ disk' = [p \in Paths |-> 0]
    /\ folder_exists' = FALSE
    /\ last_scan' = NoScan
    /\ UNCHANGED <<tbl_files, tbl_issues_files, tbl_volume_files,
                   monitored, settings, world>>
    /\ UNCHANGED nonScanVars

(***************************************************************************)
(* scan_files(volume_id, filepath_filter, del_unmatched_files,             *)
(*            update_websocket)                                            *)
(***************************************************************************)
ScanReturnsEarly ==
    ~folder_exists /\ ~settings.create_empty_volume_folders

ScanFiles(filepath_filter, del_unmatched_files, update_websocket) ==
    IF ScanReturnsEarly
    THEN
      /\ last_scan' = [done |-> TRUE, early |-> TRUE,
                       full |-> filepath_filter = {},
                       filepath_filter |-> filepath_filter,
                       del_unmatched_files |-> del_unmatched_files,
                       update_websocket |-> update_websocket,
                       pre |-> DownloadedIssues(tbl_issues_files),
                       post |-> DownloadedIssues(tbl_issues_files),
                       event |-> NoEvent]
      /\ UNCHANGED <<disk, folder_exists, tbl_files, tbl_issues_files,
                     tbl_volume_files, monitored, settings, world>>
      /\ UNCHANGED nonScanVars
    ELSE
      LET general_files == tbl_volume_files
          scanned == ScanLoop(
              filtered_iter(list_files(disk), filepath_filter), disk,
              [files |-> tbl_files,
               volume_files |->
                   get_all_files(tbl_files, tbl_issues_files, tbl_volume_files),
               bindings |-> <<>>,
               general_bindings |-> <<>>])
          bindings == scanned.bindings
          general_bindings == scanned.general_bindings
          current_bindings == PairsInOrder(tbl_issues_files)
          delete_bindings ==
              SelectSeq(current_bindings, LAMBDA b : b \notin Range(bindings))
          add_bindings ==
              SelectSeq(bindings, LAMBDA b : b \notin Range(current_bindings))
          issue_binding_count ==
              CountBindings(current_bindings, [i \in Issues |-> 0])
          newly == NewlyDownloaded(add_bindings, issue_binding_count, <<>>)
          deleted == DeletedDownloaded(delete_bindings, newly.count, <<>>)
          newly_downloaded_issues == newly.list
          deleted_downloaded_issues == deleted.list
          full == filepath_filter = {}
          ifs1 == IF full THEN tbl_issues_files \ Range(delete_bindings)
                          ELSE tbl_issues_files
          ifs2 == ifs1 \cup Range(add_bindings)
          vfs1 == IF full
                  THEN {v \in tbl_volume_files :
                            v \in Range(general_bindings)}
                  ELSE tbl_volume_files
          vfs2 == vfs1 \cup
                  {g \in Range(general_bindings) :
                       \A v \in vfs1 : v.file_id # g.file_id}
          files1 == IF del_unmatched_files
                    THEN delete_unmatched_files(scanned.files, ifs2, vfs2)
                    ELSE scanned.files
          files2 == UpdateSizes(files1, bindings, disk)
          event == ScanEvent(update_websocket, filepath_filter,
                             deleted_downloaded_issues, newly_downloaded_issues)
      IN
        /\ tbl_files' = files2
        /\ tbl_issues_files' = ifs2
        /\ tbl_volume_files' = vfs2
        /\ monitored' =
             IF full /\ settings.unmonitor_deleted_issues
             THEN [i \in Issues |->
                      IF i \in Range(deleted_downloaded_issues)
                      THEN FALSE ELSE monitored[i]]
             ELSE monitored
        /\ folder_exists' =
             ~(/\ settings.delete_empty_folders
               /\ list_files(disk) = <<>>
               /\ ~settings.create_empty_volume_folders)
        /\ last_scan' = [done |-> TRUE, early |-> FALSE,
                         full |-> filepath_filter = {},
                         filepath_filter |-> filepath_filter,
                         del_unmatched_files |-> del_unmatched_files,
                         update_websocket |-> update_websocket,
                         pre |-> DownloadedIssues(tbl_issues_files),
                         post |-> DownloadedIssues(ifs2),
                         event |-> event]
        /\ UNCHANGED <<disk, settings, world>>
        /\ UNCHANGED nonScanVars

\* The filters a caller passes: none, or the files it has just placed.
ScanFilters == {{}} \cup {{p} : p \in world.paths}

FullScan ==
    \E del \in BOOLEAN, ws \in BOOLEAN : ScanFiles({}, del, ws)

FilteredScan ==
    \E f \in ScanFilters \ {{}}, del \in BOOLEAN, ws \in BOOLEAN :
        ScanFiles(f, del, ws)

NextScan == WriteFile \/ RemoveFile \/ RemoveFolder \/ FullScan \/ FilteredScan

\* The binding accounting: three files, two of them for issue 1, one size.
InitScan ==
    /\ InitScanVars
    /\ world = [paths |-> Paths, sizes |-> {1}]
    /\ IdleNonScanVars

SpecScan == InitScan /\ [][NextScan]_vars

\* The stored sizes: a cover and an issue file that are written over.
InitScanSizes ==
    /\ InitScanVars
    /\ world = [paths |-> {"cover.jpg", "i1.cbz"}, sizes |-> Sizes]
    /\ IdleNonScanVars

SpecScanSizes == InitScanSizes /\ [][NextScan]_vars

(***************************************************************************)
(* Properties of the scan.                                                 *)
(***************************************************************************)
LinkedFiles == {r \in tbl_files : r.id \in LinkedIds(tbl_issues_files, tbl_volume_files)}

\* C1: after a full scan with update_websocket on, the DOWNLOADED_STATUS
\* event lists as downloaded exactly the issues that had no file link before
\* the scan and have one after it, as not downloaded exactly the issues that
\* had a link before and have none after it, lists no issue twice, and is
\* not emitted at all when both sets are empty.
C1_BindingAccounting ==
    (last_scan.done /\ last_scan.full /\ last_scan.update_websocket) =>
        LET added == last_scan.post \ last_scan.pre
            removed == last_scan.pre \ last_scan.post
            event == last_scan.event
        IN  IF added = {} /\ removed = {}
            THEN event = NoEvent
            ELSE /\ event.type = "downloaded_status"
                 /\ Range(event.downloaded_issues) = added
                 /\ Range(event.not_downloaded_issues) = removed
                 /\ NoDuplicates(event.downloaded_issues)
                 /\ NoDuplicates(event.not_downloaded_issues)

\* A full scan in which issue 2 lost its only file (the range file) while
\* issue 1, linked before, is linked to the single-issue file afterwards.
C1_Witness ==
    /\ last_scan.done /\ last_scan.full /\ last_scan.update_websocket
    /\ ~last_scan.early
    /\ last_scan.pre = {1, 2}
    /\ last_scan.post = {1}
    /\ last_scan.event.type = "downloaded_status"
    /\ last_scan.event.not_downloaded_issues = <<2>>
    /\ last_scan.event.downloaded_issues = <<>>
    /\ disk["i1-2.cbz"] = 0

\* C5: after a full scan every linked File exists on disk and its stored
\* size is the size of the file on disk.
C5_NoDanglingLinks ==
    (last_scan.done /\ last_scan.full) =>
        \A r \in LinkedFiles :
            disk[r.filepath] # 0 /\ r.size = disk[r.filepath]

\* C6: after a scan with del_unmatched_files = true no File row is left
\* that is referenced by neither an issue link nor a volume link.
C6_NoOrphans ==
    (last_scan.done /\ last_scan.del_unmatched_files) =>
        tbl_files = LinkedFiles

\* The path of the File row a link points to.
LinkedPath(files, file_id) == (CHOOSE r \in files : r.id = file_id).filepath

\* C26: a scan_files call with a non-empty filepath_filter removes no issue
\* link and no volume link, sets no issue to unmonitored, reports no issue
\* as not downloaded any more, and creates links only for files named in
\* the filter.
C26_FilteredScanOnlyAdds ==
    [][(last_scan'.done /\ ~last_scan'.full) =>
          /\ tbl_issues_files \subseteq tbl_issues_files'
          /\ tbl_volume_files \subseteq tbl_volume_files'
          /\ \A i \in Issues : monitored[i] => monitored'[i]
          /\ last_scan'.event.type = "downloaded_status"
                => last_scan'.event.not_downloaded_issues = <<>>
          /\ \A b \in tbl_issues_files' \ tbl_issues_files :
                LinkedPath(tbl_files', b[1]) \in last_scan'.filepath_filter
          /\ \A v \in tbl_volume_files' \ tbl_volume_files :
                LinkedPath(tbl_files', v.file_id)
                    \in last_scan'.filepath_filter]_vars

\* A filtered scan has bound the range file to both issues and reported
\* issue 2 as downloaded, while the single-issue file, linked to issue 1, is
\* gone from disk: its link is kept and no issue is unmonitored although
\* the setting asks for it after a deletion.
C26_Witness ==
    /\ last_scan.done /\ ~last_scan.full /\ ~last_scan.early
    /\ last_scan.filepath_filter = {"i1-2.cbz"}
    /\ settings.unmonitor_deleted_issues
    /\ disk["i1.cbz"] = 0
    /\ \E b \in tbl_issues_files :
          LinkedPath(tbl_files, b[1]) = "i1.cbz" /\ b[2] = 1
    /\ \E b \in tbl_issues_files :
          LinkedPath(tbl_files, b[1]) = "i1-2.cbz" /\ b[2] = 2
    /\ last_scan.event.type = "downloaded_status"
    /\ last_scan.event.downloaded_issues = <<2>>
    /\ \A i \in Issues : monitored[i]

(***************************************************************************)
(* The Transmission adapter.                                               *)
(*                                                                         *)
(* Time runs in ticks of 1/TicksPerSec second, so that round(time()) is    *)
(* not the identity.  The response of the client to torrent-get is an      *)
(* input of get_download.                                                  *)
(***************************************************************************)
TicksPerSec == 4
MaxTime == 13
FailingTimeout == 2

Hash == "h1"
NoStamp == -1

\* Transmission.state_mapping, with the default of state_mapping.get.
state_mapping(status) ==
    CASE status = 0 -> "paused"
      [] status = 1 -> "downloading"
      [] status = 2 -> "downloading"
      [] status = 3 -> "queued"
      [] status = 4 -> "downloading"
      [] status = 5 -> "seeding"
      [] status = 6 -> "seeding"
      [] OTHER      -> "importing"

\* round(time()): Python rounds to the nearest integer, halves to the even one.
round_time(t) ==
    LET q == t \div TicksPerSec
        r == t % TicksPerSec
    IN  IF 2 * r < TicksPerSec THEN q
        ELSE IF 2 * r > TicksPerSec THEN q + 1
        ELSE IF q % 2 = 0 THEN q ELSE q + 1

potential_stall(torrent) ==
    \/ torrent.status \in {1, 2, 3}
    \/ (torrent.status = 4 /\ torrent.rateDownload = 0)

\* get_download with the else branch that clears the stamp left out: the
\* stamp of an earlier stall then survives an observation that is not stalled.
get_download_keep_stamp(hashes, download_id, torrents, t, timeout) ==
    IF torrents = <<>>
    THEN [hashes |-> hashes,
          result |-> IF download_id \in DOMAIN hashes THEN "None" ELSE "Empty"]
    ELSE
      LET torrent == torrents[1]
          state0 == IF torrent.error # 0 THEN "failed"
                    ELSE state_mapping(torrent.status)
      IN  IF potential_stall(torrent) /\ state0 \notin {"failed", "seeding"}
          THEN IF download_id \notin DOMAIN hashes
               THEN [hashes |-> hashes, result |-> "KeyError"]
               ELSE IF hashes[download_id] = NoStamp
               THEN [hashes |-> [hashes EXCEPT ![download_id] = round_time(t)],
                     result |-> "downloading"]
               ELSE IF timeout # 0
                       /\ t - hashes[download_id] * TicksPerSec
                            > timeout * TicksPerSec
               THEN [hashes |-> hashes, result |-> "failed"]
               ELSE [hashes |-> hashes, result |-> state0]
          ELSE [hashes |-> hashes, result |-> state0]

\* Transmission.get_download: the new torrent_hashes and the reported state,
\* "None" / "Empty" for the two answers without a torrent, "KeyError" when
\* the lookup self.torrent_hashes[download_id] raises.
get_download(hashes, download_id, torrents, t, timeout) ==
    IF torrents = <<>>
    THEN [hashes |-> hashes,
          result |-> IF download_id \in DOMAIN hashes THEN "None" ELSE "Empty"]
    ELSE
      LET torrent == torrents[1]
          state0 == IF torrent.error # 0 THEN "failed"
                    ELSE state_mapping(torrent.status)
      IN  IF potential_stall(torrent) /\ state0 \notin {"failed", "seeding"}
          THEN IF download_id \notin DOMAIN hashes
               THEN [hashes |-> hashes, result |-> "KeyError"]
               ELSE IF hashes[download_id] = NoStamp
               THEN [hashes |-> [hashes EXCEPT ![download_id] = round_time(t)],
                     result |-> "downloading"]
               ELSE IF timeout # 0
                       /\ t - hashes[download_id] * TicksPerSec
                            > timeout * TicksPerSec
               THEN [hashes |-> hashes, result |-> "failed"]
               ELSE [hashes |-> hashes, result |-> state0]
          ELSE [hashes |-> (download_id :> NoStamp) @@ hashes,
                result |-> state0]

\* Transmission.delete_download: torrent-remove, then del torrent_hashes[id].
delete_download(hashes, download_id) ==
    IF download_id \in DOMAIN hashes
    THEN [hashes |-> [h \in DOMAIN hashes \ {download_id} |-> hashes[h]],
          result |-> "ok"]
    ELSE [hashes |-> hashes, result |-> "KeyError"]

TorrentResponses ==
    [status : 0..6, rateDownload : {0, 1}, error : {0, 1}]

InitTorrentVars ==
    /\ now = 0
    /\ torrent_present = FALSE
    /\ torrent_hashes = <<>>
    /\ failing_download_timeout \in {0, FailingTimeout}
    /\ run_start = -1
    /\ ever_added = FALSE
    /\ adding_hashes = <<>>
    /\ last_call = NoCall

\* add_download: torrent-add answers torrent-added or torrent-duplicate.
AddDownload ==
    /\ torrent_hashes' = (Hash :> NoStamp) @@ torrent_hashes
    /\ adding_hashes' = (Hash :> NoStamp) @@ adding_hashes
    /\ torrent_present' = TRUE
    /\ ever_added' = TRUE
    /\ run_start' = IF torrent_present THEN run_start ELSE -1
    /\ last_call' = [op |-> "add"]
    /\ UNCHANGED <<now, failing_download_timeout>>
    /\ UNCHANGED nonTorrentVars

GetDownload ==
    /\ ever_added
    /\ \E resp \in TorrentResponses :
         LET torrents == IF torrent_present THEN <<resp>> ELSE <<>>
             out == get_download(torrent_hashes, Hash, torrents, now,
                                 failing_download_timeout)
             adding == get_download(adding_hashes, Hash, torrents, now,
                                    failing_download_timeout)
         IN  /\ torrent_hashes' = out.hashes
             /\ adding_hashes' = adding.hashes
             /\ run_start' =
                  IF ~torrent_present THEN run_start
                  ELSE IF potential_stall(resp)
                  THEN (IF run_start = -1 THEN now ELSE run_start)
                  ELSE -1
             /\ last_call' = [op |-> "get", result |-> out.result,
                              adding_result |-> adding.result,
                              had_stamp |-> /\ Hash \in DOMAIN torrent_hashes
                                            /\ torrent_hashes[Hash] # NoStamp,
                              present |-> torrent_present,
                              stalled |-> torrent_present /\ potential_stall(resp),
                              error |-> torrent_present /\ resp.error # 0]
    /\ UNCHANGED <<now, torrent_present, failing_download_timeout, ever_added>>
    /\ UNCHANGED nonTorrentVars

DeleteDownload ==
    /\ ever_added
    /\ LET out == delete_download(torrent_hashes, Hash)
           adding == delete_download(adding_hashes, Hash)
       IN  /\ torrent_hashes' = out.hashes
           /\ adding_hashes' = adding.hashes
           /\ last_call' = [op |-> "delete", result |-> out.result,
                            adding_result |-> adding.result,
                            present |-> torrent_present]
    /\ torrent_present' = FALSE
    /\ run_start' = -1
    /\ UNCHANGED <<now, failing_download_timeout, ever_added>>
    /\ UNCHANGED nonTorrentVars

\* The process restarts: Transmission.__init__ builds a new instance.
Restart ==
    /\ ever_added
    /\ torrent_hashes # <<>>
    /\ torrent_hashes' = <<>>
    /\ last_call' = NoCall
    /\ UNCHANGED <<now, torrent_present, failing_download_timeout,
                   run_start, ever_added, adding_hashes>>
    /\ UNCHANGED nonTorrentVars

\* The user removes the torrent in the client.
ClientRemovesTorrent ==
    /\ torrent_present
    /\ torrent_present' = FALSE
    /\ run_start' = -1
    /\ last_call' = NoCall
    /\ UNCHANGED <<now, torrent_hashes, failing_download_timeout, ever_added,
                   adding_hashes>>
    /\ UNCHANGED nonTorrentVars

Tick ==
    /\ now < MaxTime
    /\ now' = now + 1
    /\ last_call' = NoCall
    /\ UNCHANGED <<torrent_present, torrent_hashes, failing_download_timeout,
                   run_start, ever_added, adding_hashes>>
    /\ UNCHANGED nonTorrentVars

NextTorrent ==
    \/ AddDownload \/ GetDownload \/ DeleteDownload
    \/ Restart \/ ClientRemovesTorrent \/ Tick

InitTorrent ==
    /\ InitTorrentVars
    /\ IdleNonTorrentVars

SpecTorrent == InitTorrent /\ [][NextTorrent]_vars

ObservedPresent == last_call.op = "get" /\ last_call.present

\* C2: when every observation since a first stalled one is stalled, an
\* observation made more than failing_download_timeout seconds after that
\* first one reports FAILED, and a torrent without error is not reported
\* FAILED before that time has elapsed.
C2_StallTimeout ==
    (ObservedPresent /\ failing_download_timeout # 0) =>
        /\ (last_call.stalled
              /\ now - run_start > failing_download_timeout * TicksPerSec)
             => last_call.result = "failed"
        /\ (last_call.result = "failed" /\ ~last_call.error)
             => /\ run_start # -1
                /\ now - run_start > failing_download_timeout * TicksPerSec

\* C3, as stated: an observation that is not stalled clears the stamp, and
\* the timeout forces FAILED only after an uninterrupted run of stalled
\* observations lasting longer than failing_download_timeout.
C3_FreshWindow ==
    ObservedPresent =>
        /\ ~last_call.stalled => torrent_hashes[Hash] = NoStamp
        /\ (last_call.result = "failed" /\ ~last_call.error)
             => /\ run_start # -1
                /\ now - run_start > failing_download_timeout * TicksPerSec

\* C3, amended: an observation that is not stalled clears the stamp, and the
\* timeout forces FAILED only after an uninterrupted run of stalled
\* observations lasting longer than failing_download_timeout minus half a
\* second (the stamp is the time rounded to a whole second), never by adding
\* up stalled periods separated by an observation that is not stalled.
C3_FreshWindowRounded ==
    ObservedPresent =>
        /\ ~last_call.stalled => torrent_hashes[Hash] = NoStamp
        /\ (last_call.result = "failed" /\ ~last_call.error)
             => /\ run_start # -1
                /\ 2 * (now - run_start)
                     > 2 * failing_download_timeout * TicksPerSec - TicksPerSec

\* An observation that is not stalled has cleared a stamp that an earlier
\* stall had set, more than the timeout after the start of the run.
C3_Witness ==
    /\ ObservedPresent
    /\ ~last_call.stalled
    /\ last_call.had_stamp
    /\ torrent_hashes[Hash] = NoStamp
    /\ failing_download_timeout # 0
    /\ now > failing_download_timeout * TicksPerSec

\* C7: a fresh adapter instance reports the status of, and deletes, a handle
\* added before the restart without raising, with the result the adding
\* instance gives.
C7_StatelessAcrossRestart ==
    last_call.op \in {"get", "delete"} =>
        /\ last_call.result # "KeyError"
        /\ last_call.result = last_call.adding_result

(***************************************************************************)
(* Renaming the files of a volume.                                         *)
(*                                                                         *)
(* A path is join(folder, body + " (index)" + ".cbz"), index 0 standing    *)
(* for a name without a number.  The volume has the folder "Old" or the    *)
(* folder that generate_volume_folder_path gives, "New"; both lie directly *)
(* in the root folder.  The files are archives, each bound to one issue.   *)
(***************************************************************************)
MaxFiles == 2
MaxIndex == 1

Folders == {"New", "Old"}

generate_volume_folder_path == "New"

\* generate_issue_name(volume_id, special_version, issue): one body per issue.
generate_issue_name(calculated_issue_number) ==
    <<"Issue", calculated_issue_number>>

Bodies == {generate_issue_name(i) : i \in Issues} \cup {<<"scan", 1>>}

join(folder, body, index) ==
    [folder |-> folder, body |-> body, index |-> index]

FileNames == {join(f, b, i) : f \in Folders, b \in Bodies, i \in 0..MaxIndex}

\* The order of str on the paths: "New" < "Old", "Issue" < "scan", and
\* "x (1).cbz" < "x (2).cbz" < "x.cbz" because " " < ".".
BodyLess(a, b) ==
    \/ a[1] = "Issue" /\ b[1] = "scan"
    \/ a[1] = b[1] /\ a[2] < b[2]

PathLess(a, b) ==
    \/ a.folder = "New" /\ b.folder = "Old"
    \/ a.folder = b.folder /\ BodyLess(a.body, b.body)
    \/ /\ a.folder = b.folder
       /\ a.body = b.body
       /\ a.index # 0
       /\ (b.index = 0 \/ a.index < b.index)

RECURSIVE sorted(_)
sorted(S) ==
    IF S = {} THEN <<>>
    ELSE LET m == CHOOSE x \in S : \A y \in S \ {x} : PathLess(x, y)
         IN  <<m>> \o sorted(S \ {m})

\* The while loop of same_name_indexing for one planned rename.
RECURSIVE NewAfter(_, _, _, _, _)
NewAfter(before, after, new_after, final_names, index) ==
    IF before # new_after /\ new_after \in final_names
    THEN NewAfter(before, after, [after EXCEPT !.index = index],
                  final_names, index + 1)
    ELSE new_after

\* The for loop of same_name_indexing over the dict, in insertion order.
RECURSIVE IndexRenames(_, _, _)
IndexRenames(planned, final_names, out) ==
    IF planned = <<>> THEN out
    ELSE LET r == Head(planned)
             new_after == NewAfter(r.before, r.after, r.after, final_names, 1)
         IN  IndexRenames(Tail(planned), final_names \cup {new_after},
                          Append(out, [before |-> r.before,
                                       after |-> new_after]))

same_name_indexing(volume_folder, planned_renames, d, files) ==
    IF volume_folder \notin d THEN planned_renames
    ELSE SelectSeq(
            IndexRenames(planned_renames,
                         {p \in files : p.folder = volume_folder}, <<>>),
            LAMBDA r : r.before # r.after)

\* The for loop of preview_mass_rename: files that are gone are skipped, a
\* file whose path is the suggested one needs no rename.
RECURSIVE SuggestRenames(_, _, _, _)
SuggestRenames(files, volume_folder, rows, on_disk) ==
    IF files = <<>> THEN <<>>
    ELSE LET file == Head(files)
             issue == (CHOOSE r \in rows : r.filepath = file).issue
             suggested_name == join(volume_folder, generate_issue_name(issue), 0)
             rest == SuggestRenames(Tail(files), volume_folder, rows, on_disk)
         IN  IF file \notin on_disk THEN rest
             ELSE IF file # suggested_name
             THEN <<[before |-> file, after |-> suggested_name]>> \o rest
             ELSE rest

\* preview_mass_rename(volume_id, issue_id, filepath_filter); issue_id 0 is
\* the None of the code.
preview_mass_rename(issue_id, filepath_filter, folder, custom, d, on_disk, rows) ==
    LET of_issue == IF issue_id = 0 THEN rows
                    ELSE {r \in rows : r.issue = issue_id}
        files == filtered_iter(sorted({r.filepath : r \in of_issue}),
                               filepath_filter)
        volume_folder == IF issue_id = 0 /\ ~custom
                         THEN generate_volume_folder_path
                         ELSE folder
    IN  IF issue_id = 0 /\ files = <<>>
        THEN [renames |-> <<>>, folder |-> None]
        ELSE [renames |-> same_name_indexing(
                              volume_folder,
                              SuggestRenames(files, volume_folder, rows, on_disk),
                              d, on_disk),
              folder |-> IF volume_folder # folder THEN volume_folder ELSE None]

\* rename_file for every planned rename in turn: shutil.move replaces a file
\* that lies at the target.
RECURSIVE MoveFiles(_, _)
MoveFiles(renames, acc) ==
    IF renames = <<>> THEN acc
    ELSE LET r == Head(renames)
         IN  MoveFiles(Tail(renames),
                [dirs |-> acc.dirs \cup {r.after.folder},
                 files |-> (acc.files \ {r.before}) \cup {r.after},
                 replaced |-> IF r.after \in acc.files
                              THEN acc.replaced \cup {r.after}
                              ELSE acc.replaced])

\* FilesDB.update_filepaths: one UPDATE for every pair, in turn.
RECURSIVE update_filepaths(_, _)
update_filepaths(rows, renames) ==
    IF renames = <<>> THEN rows
    ELSE LET r == Head(renames)
         IN  update_filepaths(
                {IF row.filepath = r.before
                 THEN [row EXCEPT !.filepath = r.after] ELSE row : row \in rows},
                Tail(renames))

\* delete_empty_parent_folders(folder, root_folder) for a folder that lies
\* directly in the root folder.
delete_empty_parent_folders(folder, d, files) ==
    IF \E p \in files : p.folder = folder THEN d ELSE d \ {folder}

InitRenameVars ==
    /\ vol_folder \in Folders
    /\ custom_folder \in BOOLEAN
    /\ dirs = {vol_folder}
    /\ fs_files = {}
    /\ db_files = {}
    /\ last_rename = NoRename

\* A file arrives in the volume folder and a scan binds it to an issue.
ImportFile ==
    /\ Cardinality(db_files) < MaxFiles
    /\ \E b \in Bodies, i \in 0..MaxIndex, issue \in Issues :
         LET p == join(vol_folder, b, i)
         IN  /\ p \notin fs_files
             /\ p \notin {r.filepath : r \in db_files}
             /\ fs_files' = fs_files \cup {p}
             /\ db_files' = db_files \cup {[filepath |-> p, issue |-> issue]}
    /\ dirs' = dirs \cup {vol_folder}
    /\ last_rename' = NoRename
    /\ UNCHANGED <<vol_folder, custom_folder>>
    /\ UNCHANGED nonRenameVars

\* A file of the volume is removed from disk behind the back of the library.
LoseFile ==
    /\ \E r \in db_files :
         /\ r.filepath \in fs_files
         /\ fs_files' = fs_files \ {r.filepath}
    /\ last_rename' = NoRename
    /\ UNCHANGED <<vol_folder, custom_folder, dirs, db_files>>
    /\ UNCHANGED nonRenameVars

\* The generated folder comes into being, empty or with a file in it that
\* carries the name of the first issue.
CreateGeneratedFolder ==
    /\ generate_volume_folder_path \notin dirs
    /\ dirs' = dirs \cup {generate_volume_folder_path}
    /\ \E with_file \in BOOLEAN :
         fs_files' = IF with_file
                     THEN fs_files \cup {join(generate_volume_folder_path,
                                              generate_issue_name(1), 0)}
                     ELSE fs_files
    /\ last_rename' = NoRename
    /\ UNCHANGED <<vol_folder, custom_folder, db_files>>
    /\ UNCHANGED nonRenameVars

RenameFilters == {{}} \cup {{r.filepath} : r \in db_files}

PreviewMassRename ==
    /\ db_files # {}
    /\ \E issue_id \in {0} \cup Issues, filepath_filter \in RenameFilters :
         LET out == preview_mass_rename(issue_id, filepath_filter, vol_folder,
                                        custom_folder, dirs, fs_files, db_files)
         IN  last_rename' = [op |-> "preview", renames |-> out.renames,
                             folder |-> out.folder, replaced |-> {}]
    /\ UNCHANGED <<vol_folder, custom_folder, dirs, fs_files, db_files>>
    /\ UNCHANGED nonRenameVars

\* mass_rename(volume_id, issue_id, filepath_filter).
MassRename ==
    /\ db_files # {}
    /\ \E issue_id \in {0} \cup Issues, filepath_filter \in RenameFilters :
         LET out == preview_mass_rename(issue_id, filepath_filter, vol_folder,
                                        custom_folder, dirs, fs_files, db_files)
             moved == MoveFiles(out.renames,
                                [dirs |-> dirs, files |-> fs_files,
                                 replaced |-> {}])
         IN  IF out.renames = <<>> /\ out.folder = None
             THEN /\ last_rename' = [op |-> "mass_rename", renames |-> <<>>,
                                     folder |-> None, replaced |-> {},
                                     whole |-> issue_id = 0
                                               /\ filepath_filter = {}]
                  /\ UNCHANGED <<vol_folder, dirs, fs_files, db_files>>
             ELSE /\ vol_folder' = IF out.folder # None THEN out.folder
                                   ELSE vol_folder
                  /\ fs_files' = moved.files
                  /\ db_files' = update_filepaths(db_files, out.renames)
                  /\ dirs' = IF out.renames # <<>>
                             THEN delete_empty_parent_folders(
                                      vol_folder, moved.dirs, moved.files)
                             ELSE moved.dirs
                  /\ last_rename' = [op |-> "mass_rename",
                                     renames |-> out.renames,
                                     folder |-> out.folder,
                                     replaced |-> moved.replaced,
                                     whole |-> issue_id = 0
                                               /\ filepath_filter = {}]
    /\ UNCHANGED custom_folder
    /\ UNCHANGED nonRenameVars

NextRename ==
    \/ ImportFile \/ LoseFile \/ CreateGeneratedFolder
    \/ PreviewMassRename \/ MassRename

InitRename ==
    /\ InitRenameVars
    /\ IdleNonRenameVars

SpecRename == InitRename /\ [][NextRename]_vars

Befores(renames) == {renames[i].before : i \in 1..Len(renames)}
Afters(renames) == [i \in 1..Len(renames) |-> renames[i].after]

\* C4: the targets of preview_mass_rename are pairwise distinct, none is an
\* existing file that is not itself being moved away, every target lies
\* under the returned volume folder, and mass_rename moves no file onto
\* another.
C4_CollisionFreeRename ==
    /\ last_rename.op = "preview" =>
         /\ NoDuplicates(Afters(last_rename.renames))
         /\ \A i \in 1..Len(last_rename.renames) :
              LET after == last_rename.renames[i].after
              IN  /\ after \in fs_files
                       => after \in Befores(last_rename.renames)
                  /\ after.folder = IF last_rename.folder = None
                                    THEN vol_folder
                                    ELSE last_rename.folder
    /\ last_rename.op = "mass_rename" => last_rename.replaced = {}

\* C24: right after mass_rename has completed for a volume, with no other
\* change to the library, preview_mass_rename for that volume proposes no
\* rename (so that a second mass_rename moves no file), also when the run
\* gave a file a numbered name because another file still had its name.
C24_RenameIdempotent ==
    last_rename.op = "mass_rename" /\ last_rename.whole =>
        preview_mass_rename(0, {}, vol_folder, custom_folder, dirs,
                            fs_files, db_files).renames = <<>>

(***************************************************************************)
(* Automatic search.                                                       *)
(*                                                                         *)
(* The volume is a NORMAL one with the issues 1..NumVolumeIssues.  A       *)
(* search result carries what the rank and the admission read: the issue   *)
(* number, a float (is_range FALSE, lo = hi) or a tuple (lo, hi), and the  *)
(* number of words of its series that are not in the title of the volume.  *)
(* source_results holds results for which check_search_result_match gives  *)
(* a match.                                                                *)
(***************************************************************************)
NumVolumeIssues == 4
MaxResults == 2
MaxWords == 1

VolumeIssues == 1..NumVolumeIssues

IssueNumbers ==
    {[is_range |-> FALSE, lo |-> i, hi |-> i] : i \in VolumeIssues}
    \cup {[is_range |-> TRUE, lo |-> a, hi |-> b] :
            a \in VolumeIssues, b \in VolumeIssues}

SearchResults ==
    {[issue_number |-> n, words |-> w] :
        n \in {m \in IssueNumbers : m.is_range => m.lo < m.hi},
        w \in 0..MaxWords}

\* _rank_search_result for a volume search of a matching result that names
\* the volume number: [not match, words, vy_score, int(1.0 / width)].
rank_search_result(result) ==
    <<0,
      result.words,
      2,
      IF result.issue_number.is_range
      THEN 1 \div (result.issue_number.hi - result.issue_number.lo + 1)
      ELSE 1>>

\* The order of Python on lists of integers.
RECURSIVE ListLess(_, _)
ListLess(a, b) ==
    IF a = <<>> THEN b # <<>>
    ELSE IF b = <<>> THEN FALSE
    ELSE IF Head(a) # Head(b) THEN Head(a) < Head(b)
    ELSE ListLess(Tail(a), Tail(b))

\* list.sort(key=...): stable, an element goes behind those of equal key.
RECURSIVE InsertByRank(_, _)
InsertByRank(sorted_results, result) ==
    IF sorted_results = <<>> THEN <<result>>
    ELSE IF ListLess(rank_search_result(result),
                     rank_search_result(Head(sorted_results)))
    THEN <<result>> \o sorted_results
    ELSE <<Head(sorted_results)>> \o InsertByRank(Tail(sorted_results), result)

RECURSIVE sort_results(_)
sort_results(results) ==
    IF results = <<>> THEN <<>>
    ELSE InsertByRank(sort_results(SubSeq(results, 1, Len(results) - 1)),
                      results[Len(results)])

\* manual_search(volume_id) filtered on r["match"].
manual_search == sort_results(source_results)

\* check_overlapping_issues(issues_1, issues_2), branch by branch.
check_overlapping_issues(issues_1, issues_2) ==
    IF ~issues_1.is_range
    THEN IF ~issues_2.is_range
         THEN issues_1.lo = issues_2.lo
         ELSE issues_2.lo <= issues_1.lo /\ issues_1.lo <= issues_2.hi
    ELSE IF ~issues_2.is_range
         THEN issues_1.lo <= issues_2.lo /\ issues_2.lo <= issues_1.hi
         ELSE \/ issues_1.lo <= issues_2.lo /\ issues_2.lo <= issues_1.hi
              \/ issues_1.lo <= issues_2.hi /\ issues_2.hi <= issues_1.hi

\* Volume.get_issues_in_range(*create_range(issue_number)).
covered_issues(issue_number) ==
    {i \in VolumeIssues : issue_number.lo <= i /\ i <= issue_number.hi}

\* The admission loop of auto_search over the ranked results.
RECURSIVE ChooseDownloads(_, _, _)
ChooseDownloads(search_results, searchable_issue_numbers, chosen_downloads) ==
    IF search_results = <<>> THEN chosen_downloads
    ELSE LET result == Head(search_results)
             rest == Tail(search_results)
         IN  IF \E i \in covered_issues(result.issue_number) :
                    i \notin searchable_issue_numbers
             THEN ChooseDownloads(rest, searchable_issue_numbers,
                                  chosen_downloads)
             ELSE IF \E k \in 1..Len(chosen_downloads) :
                        check_overlapping_issues(
                            chosen_downloads[k].issue_number,
                            result.issue_number)
             THEN ChooseDownloads(rest, searchable_issue_numbers,
                                  chosen_downloads)
             ELSE ChooseDownloads(rest, searchable_issue_numbers,
                                  Append(chosen_downloads, result))

\* The issues that no chosen download covers, in the order of the issues.
RECURSIVE MissingIssues(_, _, _)
MissingIssues(i, searchable, chosen_downloads) ==
    IF i > NumVolumeIssues THEN <<>>
    ELSE (IF i \in searchable
             /\ ~\E k \in 1..Len(chosen_downloads) :
                    check_overlapping_issues(
                        [is_range |-> FALSE, lo |-> i, hi |-> i],
                        chosen_downloads[k].issue_number)
          THEN <<i>> ELSE <<>>)
         \o MissingIssues(i + 1, searchable, chosen_downloads)

\* auto_search(volume_id, issue_id) for one issue: the first matching result
\* of the search for the issue, which names exactly that issue.
auto_search_issue(issue_id, vol_monitored, found) ==
    IF vol_monitored /\ issue_id \in open_issues /\ issue_id \in found
    THEN <<[issue_number |-> [is_range |-> FALSE, lo |-> issue_id,
                              hi |-> issue_id],
            words |-> 0]>>
    ELSE <<>>

RECURSIVE SearchMissing(_, _, _)
SearchMissing(missing_issues, vol_monitored, found) ==
    IF missing_issues = <<>> THEN <<>>
    ELSE auto_search_issue(Head(missing_issues), vol_monitored, found)
         \o SearchMissing(Tail(missing_issues), vol_monitored, found)

InitSearchVars ==
    /\ open_issues = VolumeIssues
    /\ source_results = <<>>
    /\ last_search = NoSearch

\* A source gets a release for the volume.
SourcePublishes ==
    /\ Len(source_results) < MaxResults
    /\ \E r \in SearchResults : source_results' = Append(source_results, r)
    /\ last_search' = NoSearch
    /\ UNCHANGED open_issues
    /\ UNCHANGED nonSearchVars

\* The sources drop what they hold.
SourcesDrop ==
    /\ source_results # <<>>
    /\ source_results' = <<>>
    /\ last_search' = NoSearch
    /\ UNCHANGED open_issues
    /\ UNCHANGED nonSearchVars

\* An issue gets a file or is unmonitored, or loses its file again.
ToggleIssue ==
    /\ \E i \in VolumeIssues :
         open_issues' = IF i \in open_issues THEN open_issues \ {i}
                        ELSE open_issues \cup {i}
    /\ last_search' = NoSearch
    /\ UNCHANGED source_results
    /\ UNCHANGED nonSearchVars

\* auto_search(volume_id): vol_monitored is volumes.monitored, found is the set
\* of issues for which the search for the single issue has a matching result.
AutoSearchVolume ==
    /\ \E vol_monitored \in BOOLEAN, found \in SUBSET VolumeIssues :
         LET searchable == IF vol_monitored THEN open_issues ELSE {}
             admitted == ChooseDownloads(manual_search, searchable, <<>>)
             missing == MissingIssues(1, searchable, admitted)
         IN  last_search' =
               IF searchable = {}
               THEN [op |-> "volume", admitted |-> <<>>, chosen |-> <<>>]
               ELSE [op |-> "volume", admitted |-> admitted,
                     chosen |-> admitted
                                \o SearchMissing(missing, vol_monitored, found)]
    /\ UNCHANGED <<open_issues, source_results>>
    /\ UNCHANGED nonSearchVars

\* auto_search(volume_id, issue_id).
AutoSearchIssue ==
    /\ \E issue_id \in VolumeIssues, vol_monitored \in BOOLEAN,
          found \in {{}, VolumeIssues} :
         last_search' = [op |-> "issue", admitted |-> <<>>,
                         chosen |-> auto_search_issue(issue_id, vol_monitored,
                                                      found)]
    /\ UNCHANGED <<open_issues, source_results>>
    /\ UNCHANGED nonSearchVars

NextSearch ==
    \/ SourcePublishes \/ SourcesDrop \/ ToggleIssue
    \/ AutoSearchVolume \/ AutoSearchIssue

InitSearch ==
    /\ InitSearchVars
    /\ IdleNonSearchVars

SpecSearch == InitSearch /\ [][NextSearch]_vars

\* C8: in a volume-wide auto_search the results are admitted in rank order
\* and no two admitted results cover a common issue, also when one range
\* strictly contains the other.
C8_AdmittedDisjoint ==
    last_search.op = "volume" =>
        /\ \A i, j \in 1..Len(last_search.admitted) :
             i < j => ~ListLess(rank_search_result(last_search.admitted[j]),
                               rank_search_result(last_search.admitted[i]))
        /\ \A i, j \in 1..Len(last_search.chosen) :
             i # j => covered_issues(last_search.chosen[i].issue_number)
                        \cap covered_issues(last_search.chosen[j].issue_number)
                      = {}

(***************************************************************************)
(* The HTTP shell.                                                         *)
(*                                                                         *)
(* Routes is the list of the @api.route declarations with the decorators   *)
(* each of them carries.  The keys that Settings.generate_api_key hands    *)
(* out are numbered 1, 2, ...; a request presents a key number, 0 for an   *)
(* empty value, or NoKey when it has no api_key parameter.                 *)
(***************************************************************************)
MaxKeys == 2

NoKey == -1

Methods == {"GET", "POST", "PUT", "DELETE"}

Passwords == {"", "pw"}

Routes == <<
    [path |-> "/auth",
     methods |-> {"POST"}, error_handler |-> FALSE, auth |-> FALSE],
    [path |-> "/auth/check",
     methods |-> {"POST"}, error_handler |-> TRUE, auth |-> TRUE],
    [path |-> "/system/about",
     methods |-> {"GET"}, error_handler |-> TRUE, auth |-> TRUE],
    [path |-> "/system/logs",
     methods |-> {"GET"}, error_handler |-> TRUE, auth |-> TRUE],
    [path |-> "/system/tasks",
     methods |-> {"GET", "POST"}, error_handler |-> TRUE, auth |-> TRUE],
    [path |-> "/system/tasks/history",
     methods |-> {"GET", "DELETE"}, error_handler |-> TRUE, auth |-> TRUE],
    [path |-> "/system/tasks/planning",
     methods |-> {"GET"}, error_handler |-> TRUE, auth |-> TRUE],
    [path |-> "/system/tasks/<int:task_id>",
     methods |-> {"GET", "DELETE"}, error_handler |-> TRUE, auth |-> TRUE],
    [path |-> "/system/power/shutdown",
     methods |-> {"POST"}, error_handler |-> TRUE, auth |-> TRUE],
    [path |-> "/system/power/restart",
     methods |-> {"POST"}, error_handler |-> TRUE, auth |-> TRUE],
    [path |-> "/settings",
     methods |-> {"GET", "PUT", "DELETE"}, error_handler |-> TRUE, auth |-> TRUE],
    [path |-> "/settings/api_key",
     methods |-> {"POST"}, error_handler |-> TRUE, auth |-> TRUE],
    [path |-> "/settings/availableformats",
     methods |-> {"GET"}, error_handler |-> TRUE, auth |-> TRUE],
    [path |-> "/rootfolder",
     methods |-> {"GET", "POST"}, error_handler |-> TRUE, auth |-> TRUE],
    [path |-> "/rootfolder/<int:id>",
     methods |-> {"GET", "PUT", "DELETE"}, error_handler |-> TRUE, auth |-> TRUE],
    [path |-> "/libraryimport",
     methods |-> {"GET", "POST"}, error_handler |-> TRUE, auth |-> TRUE],
    [path |-> "/volumes/search",
     methods |-> {"GET", "POST"}, error_handler |-> TRUE, auth |-> TRUE],
    [path |-> "/volumes",
     methods |-> {"GET", "POST"}, error_handler |-> TRUE, auth |-> TRUE],
    [path |-> "/volumes/stats",
     methods |-> {"GET"}, error_handler |-> TRUE, auth |-> TRUE],
    [path |-> "/volumes/<int:id>",
     methods |-> {"GET", "PUT", "DELETE"}, error_handler |-> TRUE, auth |-> TRUE],
    [path |-> "/volumes/<int:id>/cover",
     methods |-> {"GET"}, error_handler |-> TRUE, auth |-> TRUE],
    [path |-> "/issues/<int:id>",
     methods |-> {"GET", "PUT"}, error_handler |-> TRUE, auth |-> TRUE],
    [path |-> "/volumes/<int:id>/rename",
     methods |-> {"GET"}, error_handler |-> TRUE, auth |-> TRUE],
    [path |-> "/issues/<int:id>/rename",
     methods |-> {"GET"}, error_handler |-> TRUE, auth |-> TRUE],
    [path |-> "/volumes/<int:id>/convert",
     methods |-> {"GET"}, error_handler |-> TRUE, auth |-> TRUE],
    [path |-> "/issues/<int:id>/convert",
     methods |-> {"GET"}, error_handler |-> TRUE, auth |-> TRUE],
    [path |-> "/volumes/<int:id>/manualsearch",
     methods |-> {"GET"}, error_handler |-> TRUE, auth |-> TRUE],
    [path |-> "/volumes/<int:id>/download",
     methods |-> {"POST"}, error_handler |-> TRUE, auth |-> TRUE],
    [path |-> "/issues/<int:id>/manualsearch",
     methods |-> {"GET"}, error_handler |-> TRUE, auth |-> TRUE],
    [path |-> "/issues/<int:id>/download",
     methods |-> {"POST"}, error_handler |-> TRUE, auth |-> TRUE],
    [path |-> "/activity/queue",
     methods |-> {"GET", "DELETE"}, error_handler |-> TRUE, auth |-> TRUE],
    [path |-> "/activity/queue/<int:download_id>",
     methods |-> {"GET", "PUT", "DELETE"}, error_handler |-> TRUE, auth |-> TRUE],
    [path |-> "/activity/history",
     methods |-> {"GET", "DELETE"}, error_handler |-> TRUE, auth |-> TRUE],
    [path |-> "/activity/folder",
     methods |-> {"DELETE"}, error_handler |-> TRUE, auth |-> TRUE],
    [path |-> "/blocklist",
     methods |-> {"GET", "POST", "DELETE"}, error_handler |-> TRUE, auth |-> TRUE],
    [path |-> "/blocklist/<int:id>",
     methods |-> {"GET", "DELETE"}, error_handler |-> TRUE, auth |-> TRUE],
    [path |-> "/credentials",
     methods |-> {"GET", "POST"}, error_handler |-> TRUE, auth |-> TRUE],
    [path |-> "/credentials/<int:id>",
     methods |-> {"GET", "DELETE"}, error_handler |-> TRUE, auth |-> TRUE],
    [path |-> "/externalclients",
     methods |-> {"GET", "POST"}, error_handler |-> TRUE, auth |-> TRUE],
    [path |-> "/externalclients/options",
     methods |-> {"GET"}, error_handler |-> TRUE, auth |-> TRUE],
    [path |-> "/externalclients/test",
     methods |-> {"POST"}, error_handler |-> TRUE, auth |-> TRUE],
    [path |-> "/externalclients/<int:id>",
     methods |-> {"GET", "PUT", "DELETE"}, error_handler |-> TRUE, auth |-> TRUE],
    [path |-> "/masseditor",
     methods |-> {"POST"}, error_handler |-> TRUE, auth |-> TRUE],
    [path |-> "/files/<int:id>",
     methods |-> {"GET", "DELETE"}, error_handler |-> TRUE, auth |-> TRUE]
>>

\* The api_response of the error classes of custom_exceptions.
NotFoundKinds ==
    {"FolderNotFound", "RootFolderNotFound", "VolumeNotFound", "IssueNotFound",
     "TaskNotFound", "DownloadNotFound", "BlocklistEntryNotFound",
     "CredentialNotFound", "ExternalClientNotFound", "LogFileNotFound",
     "FileNotFound"}

RateLimitKinds == {"CVRateLimitReached", "DownloadLimitReached"}

BadRequestKinds ==
    {"RootFolderInUse", "RootFolderInvalid", "VolumeNotMatched",
     "VolumeAlreadyAdded", "VolumeDownloadedFor", "TaskForVolumeRunning",
     "TaskNotDeletable", "InvalidComicVineApiKey", "LinkBroken",
     "FailedGCPage", "InvalidSettingKey", "InvalidSettingValue",
     "InvalidSettingModification", "KeyNotFound", "InvalidKeyValue",
     "CredentialInvalid", "DownloadUnmovable", "ClientDownloading",
     "ClientNotWorking", "ExternalClientNotWorking"}

ErrorKinds == NotFoundKinds \cup RateLimitKinds \cup BadRequestKinds

api_response(kind) ==
    [error |-> kind,
     code |-> IF kind \in NotFoundKinds THEN 404
              ELSE IF kind \in RateLimitKinds THEN 509
              ELSE 400]

\* The error kinds that section 7 of the specification names.
SpecErrorKinds == ErrorKinds \ {"VolumeNotMatched"}

\* The except clause of error_handler.
CaughtKinds ==
    {"BlocklistEntryNotFound", "ClientDownloading", "CredentialInvalid",
     "CredentialNotFound", "CVRateLimitReached", "DownloadNotFound",
     "ExternalClientNotFound", "ExternalClientNotWorking", "FileNotFound",
     "FolderNotFound", "InvalidComicVineApiKey", "InvalidKeyValue",
     "InvalidSettingKey", "InvalidSettingModification", "InvalidSettingValue",
     "IssueNotFound", "KeyNotFound", "LogFileNotFound", "RootFolderInUse",
     "RootFolderInvalid", "RootFolderNotFound", "TaskForVolumeRunning",
     "TaskNotDeletable", "TaskNotFound", "VolumeAlreadyAdded",
     "VolumeDownloadedFor", "VolumeNotFound"}

return_api(error, code) == [error |-> error, code |-> code]

\* extract_key(request, 'api_key'): what it raises, "none" if it returns.
extract_key(value, key) ==
    IF value = NoKey THEN "KeyNotFound"
    ELSE IF value = 0 \/ value # key THEN "InvalidKeyValue"
    ELSE "none"

\* auth without the comparison of the value: any api_key parameter passes.
auth_any_value(value, key) ==
    IF value = NoKey THEN "ApiKeyInvalid" ELSE "none"

\* The try of auth: the error of its answer, "none" if the method is called.
auth(value, key) ==
    IF extract_key(value, key) \in {"KeyNotFound", "InvalidKeyValue"}
    THEN "ApiKeyInvalid"
    ELSE "none"

\* error_handler around the method, and the handler of the app for 500:
\* outcome is the error the method raises, "none" if it returns.
error_handler(outcome) ==
    IF outcome = "none" THEN return_api(None, 200)
    ELSE IF outcome \in CaughtKinds
    THEN return_api(api_response(outcome).error, api_response(outcome).code)
    ELSE return_api("InternalError", 500)

\* api_auth: the answer to a login.
api_auth(given_password, password) ==
    IF password # "" /\ (given_password = None \/ given_password # password)
    THEN return_api("PasswordInvalid", 401)
    ELSE return_api(None, 200)

\* A request from routing to answer: request is [route, method, api_key,
\* password, outcome, new_password], where outcome is what the method of
\* the endpoint raises when it runs and new_password what a PUT on
\* /settings stores.
api_request(request, key, password) ==
    LET route == request.route
    IN  IF request.method \notin route.methods
        THEN [response |-> return_api("MethodNotAllowed", 405),
              executed |-> FALSE, api_key |-> key, auth_password |-> password]
        ELSE IF ~route.auth
        THEN [response |-> api_auth(request.password, password),
              executed |-> TRUE, api_key |-> key, auth_password |-> password]
        ELSE IF auth(request.api_key, key) # "none"
        THEN [response |-> return_api(auth(request.api_key, key), 401),
              executed |-> FALSE, api_key |-> key, auth_password |-> password]
        ELSE [response |-> error_handler(request.outcome),
              executed |-> TRUE,
              api_key |-> IF /\ route.path = "/settings/api_key"
                             /\ request.outcome = "none"
                          THEN key + 1 ELSE key,
              auth_password |-> IF /\ route.path = "/settings"
                                   /\ request.method = "PUT"
                                   /\ request.outcome = "none"
                                THEN request.new_password ELSE password]

RouteSet == Range(Routes)

PresentedKeys == {NoKey} \cup 0..MaxKeys

\* The request is answered; the key in use stays among the numbered ones.
Answer(request) ==
    LET out == api_request(request, api_key, auth_password)
    IN  /\ out.api_key <= MaxKeys
        /\ api_key' = out.api_key
        /\ auth_password' = out.auth_password
        /\ last_response' = [op |-> "request",
                             path |-> request.route.path,
                             routed |-> request.method \in request.route.methods,
                             key_valid |-> request.api_key = api_key,
                             raised |-> IF out.executed /\ request.route.auth
                                        THEN request.outcome ELSE "none",
                             error |-> out.response.error,
                             code |-> out.response.code,
                             executed |-> out.executed,
                             key_before |-> api_key,
                             password_before |-> auth_password]
        /\ UNCHANGED nonApiVars

InitApiVars ==
    /\ api_key = 1
    /\ auth_password \in Passwords
    /\ last_response = NoRequest

\* A request with a method the route does not have.
RequestWrongMethod ==
    \E route \in RouteSet :
        \E method \in Methods \ route.methods :
            Answer([route |-> route, method |-> method, api_key |-> NoKey,
                    password |-> None, outcome |-> "none",
                    new_password |-> ""])

\* A login.
RequestLogin ==
    \E route \in {r \in RouteSet : ~r.auth},
       given_password \in Passwords \cup {None, "bad"} :
        Answer([route |-> route, method |-> "POST", api_key |-> NoKey,
                password |-> given_password, outcome |-> "none",
                new_password |-> ""])

\* A request to an endpoint that does not present the key in use.
RequestWithoutKey ==
    \E route \in {r \in RouteSet : r.path # "/auth"},
       key \in PresentedKeys \ {api_key} :
        \E method \in route.methods :
            Answer([route |-> route, method |-> method, api_key |-> key,
                    password |-> None, outcome |-> "none",
                    new_password |-> ""])

\* A request to an endpoint that presents the key in use, and the method
\* of the endpoint returns.
RequestWithKey ==
    \E route \in {r \in RouteSet : r.path # "/auth"},
       new_password \in Passwords :
        \E method \in route.methods :
            Answer([route |-> route, method |-> method, api_key |-> api_key,
                    password |-> None, outcome |-> "none",
                    new_password |-> new_password])

\* The endpoints that add a download or test a download client.  The answer
\* to an error depends on error_handler alone, which every endpoint
\* carries, so these stand for the others where an error is raised.
RaisingPaths ==
    {"/volumes/<int:id>/download", "/issues/<int:id>/download",
     "/externalclients/test"}

\* A request that presents the key in use, and the method of the endpoint
\* raises an error.
RequestRaises ==
    \E route \in {r \in RouteSet : r.path \in RaisingPaths},
       outcome \in ErrorKinds :
        \E method \in route.methods :
            Answer([route |-> route, method |-> method, api_key |-> api_key,
                    password |-> None, outcome |-> outcome,
                    new_password |-> ""])

NextApi ==
    \/ RequestWrongMethod \/ RequestLogin \/ RequestWithoutKey
    \/ RequestWithKey \/ RequestRaises

InitApi ==
    /\ InitApiVars
    /\ IdleNonApiVars

SpecApi == InitApi /\ [][NextApi]_vars

\* C9: a request to an endpoint other than the login that does not present
\* the valid API key is answered with 401 ApiKeyInvalid, the operation of the
\* endpoint is not executed and no state changes.
C9_KeyRequired ==
    (/\ last_response.op = "request"
     /\ last_response.routed
     /\ last_response.path # "/auth"
     /\ ~last_response.key_valid)
    => /\ last_response.code = 401
       /\ last_response.error = "ApiKeyInvalid"
       /\ ~last_response.executed
       /\ api_key = last_response.key_before
       /\ auth_password = last_response.password_before

\* The key of before /settings/api_key was posted is presented to the
\* endpoint that hands out keys, and is turned down.
C9_Witness ==
    /\ last_response.op = "request"
    /\ last_response.routed
    /\ last_response.path = "/settings/api_key"
    /\ ~last_response.key_valid
    /\ api_key > 1
    /\ last_response.code = 401
    /\ ~last_response.executed

\* C10: an error kind of the error model that is raised while an endpoint is
\* handled is answered with the envelope that carries the name of the kind
\* and the status code of the kind.
C10_ErrorKindsMapped ==
    (/\ last_response.op = "request"
     /\ last_response.executed
     /\ last_response.raised \in SpecErrorKinds)
    => /\ last_response.error = api_response(last_response.raised).error
       /\ last_response.code = api_response(last_response.raised).code

(***************************************************************************)
(* Root folders (backend/implementations/root_folders.py).                 *)
(*                                                                         *)
(* A folder is the sequence of the components of its absolute path: <<>>   *)
(* is "/" and <<"a", "b">> is "/a/b/".  One volume lives in the library;   *)
(* moving it to another root folder can fail.                              *)
(***************************************************************************)
MaxRoots == 3

RootPaths == {<<>>, <<"a">>, <<"b">>, <<"a", "a">>, <<"a", "b">>, <<"b", "a">>}

RootIds == 1..(MaxRoots + 1)

\* Settings().sv.download_folder
download_folder == <<"b">>

\* force_suffix(abspath(folder)).startswith(force_suffix(abspath(base_folder))):
\* both strings end with the separator, so the prefix ends at a component
folder_is_inside_folder(base_folder, folder) ==
    /\ Len(base_folder) <= Len(folder)
    /\ SubSeq(folder, 1, Len(base_folder)) = base_folder

\* skip_folder is the set of the folders that are not checked
are_folders_colliding(folder, other_folders, skip_folder) ==
    \E other \in other_folders \ skip_folder :
        \/ folder_is_inside_folder(other, folder)
        \/ folder_is_inside_folder(folder, other)

get_folder_list(rows) == {r.folder : r \in rows}

\* cursor.lastrowid of the INSERT
lastrowid(rows) == IF rows = {} THEN 1 ELSE Max({r.id : r \in rows}) + 1

\* RootFolders.add on the table rows: the table afterwards, the new id and
\* how the call ended
add(rows, folder, isdir, _folder_to_skip_check) ==
    IF ~isdir
    THEN [rows |-> rows, id |-> 0, outcome |-> "FolderNotFound"]
    ELSE IF are_folders_colliding(folder,
                {download_folder} \cup get_folder_list(rows),
                _folder_to_skip_check)
    THEN [rows |-> rows, id |-> 0, outcome |-> "RootFolderInvalid"]
    ELSE [rows |-> rows \cup {[id |-> lastrowid(rows), folder |-> folder]},
          id |-> lastrowid(rows), outcome |-> "ok"]

InitRootVars ==
    /\ root_folders = {}
    /\ volume_root = 0
    /\ last_root = NoRootCall

\* POST /rootfolder
RootAdd ==
    \E folder \in RootPaths, isdir \in BOOLEAN :
        LET r == add(root_folders, folder, isdir, {})
        IN  /\ r.outcome = "ok" => Cardinality(root_folders) < MaxRoots
            /\ root_folders' = r.rows
            /\ last_root' = [op |-> "add", folder |-> folder,
                             outcome |-> r.outcome]
            /\ UNCHANGED volume_root
            /\ UNCHANGED nonRootVars

\* RootFolders.rename; moves tells whether Volume.change_root_folder
\* succeeds in moving the volume
RootRename ==
    \E root_folder_id \in RootIds, new_folder \in RootPaths, moves \in BOOLEAN :
        LET current == {r \in root_folders : r.id = root_folder_id}
            current_folder == (CHOOSE r \in current : TRUE).folder
            r == add(root_folders, new_folder, TRUE, {current_folder})
            renamed == (r.rows \ (current \cup {[id |-> r.id,
                                                   folder |-> new_folder]}))
                       \cup {[id |-> root_folder_id, folder |-> new_folder]}
            outcome ==
                IF current = {} THEN "RootFolderNotFound"
                ELSE IF current_folder = new_folder THEN "same"
                ELSE IF r.outcome # "ok" THEN r.outcome
                ELSE IF volume_root = root_folder_id /\ ~moves THEN "move failed"
                ELSE "ok"
        IN  /\ outcome \in {"move failed", "ok"}
                => Cardinality(root_folders) < MaxRoots
            /\ root_folders' = CASE outcome = "ok" -> renamed
                                 [] outcome = "move failed" -> r.rows
                                 [] OTHER -> root_folders
            /\ last_root' = [op |-> "rename", folder |-> new_folder,
                             outcome |-> outcome]
            \* the volume goes to new_id and the script gives new_id the old id
            /\ UNCHANGED volume_root
            /\ UNCHANGED nonRootVars

\* RootFolders.delete
RootDelete ==
    \E root_folder_id \in RootIds :
        LET current == {r \in root_folders : r.id = root_folder_id}
            outcome == IF current = {} THEN "RootFolderNotFound"
                       ELSE IF volume_root = root_folder_id
                       THEN "RootFolderInUse"
                       ELSE "ok"
        IN  /\ root_folders' = IF outcome = "ok" THEN root_folders \ current
                               ELSE root_folders
            /\ last_root' = [op |-> "delete", folder |-> <<>>,
                             outcome |-> outcome]
            /\ UNCHANGED volume_root
            /\ UNCHANGED nonRootVars

\* a volume is added to a root folder
VolumeAdded ==
    /\ volume_root = 0
    /\ \E r \in root_folders : volume_root' = r.id
    /\ last_root' = NoRootCall
    /\ UNCHANGED root_folders
    /\ UNCHANGED nonRootVars

\* the volume is deleted from the library
VolumeDeleted ==
    /\ volume_root # 0
    /\ volume_root' = 0
    /\ last_root' = NoRootCall
    /\ UNCHANGED root_folders
    /\ UNCHANGED nonRootVars

NextRoot == RootAdd \/ RootRename \/ RootDelete \/ VolumeAdded \/ VolumeDeleted

InitRoot == InitRootVars /\ IdleNonRootVars

SpecRoot == InitRoot /\ [][NextRoot]_vars

\* C11: no stored root folder equals or is nested inside another stored root
\* folder, and none equals, contains or lies inside the download folder.
C11_RootsDisjoint ==
    \A r1 \in root_folders :
        /\ ~are_folders_colliding(r1.folder, {download_folder}, {})
        /\ \A r2 \in root_folders \ {r1} :
               ~folder_is_inside_folder(r1.folder, r2.folder)

(***************************************************************************)
(* The catalog adapter (backend/implementations/comicvine.py): the bulk    *)
(* fetches.  The catalog answers cv_budget more requests and then fails    *)
(* every request with a ServiceError (rate limit) or AuthenticationError.  *)
(* The list sizes are scaled down: one id stands for a full request.       *)
(***************************************************************************)
MaxIds == 3
MaxOffsets == 2
MaxBudget == 4

\* batched(formatted_cv_ids, 1000) over requests of 100 ids: requests per batch
VolumeRequestsPerBatch == 2

\* itertools-style batched: the chunks of s of n elements, the last one shorter
RECURSIVE batched(_, _)
batched(s, n) ==
    IF Len(s) <= n THEN (IF s = <<>> THEN <<>> ELSE <<s>>)
    ELSE <<SubSeq(s, 1, n)>> \o batched(SubSeq(s, n + 1, Len(s)), n)

\* the loop of fetch_volumes over the batches; a batch makes one request
\* for each of its ids and the first failing request raises
RECURSIVE fetch_volumes_loop(_, _, _)
fetch_volumes_loop(batches, budget, volume_infos) ==
    IF batches = <<>>
    THEN [result |-> volume_infos, raised |-> None, budget |-> budget]
    ELSE IF Len(Head(batches)) > budget
    THEN [result |-> <<>>, raised |-> "CVRateLimitReached", budget |-> 0]
    ELSE fetch_volumes_loop(Tail(batches), budget - Len(Head(batches)),
                            volume_infos \o Head(batches))

fetch_volumes(cv_ids, budget) ==
    fetch_volumes_loop(batched(cv_ids, VolumeRequestsPerBatch), budget, <<>>)

\* the first occurrence of each element, in order
RECURSIVE unique(_)
unique(s) ==
    IF s = <<>> THEN <<>>
    ELSE LET front == unique(SubSeq(s, 1, Len(s) - 1))
             item == s[Len(s)]
         IN  IF \E i \in 1..Len(front) : front[i] = item
             THEN front ELSE Append(front, item)

\* the loop of fetch_issues over the id batches; offsets[id] is the number
\* of further pages of the batch.  An issue is <<id batch, page>>.
RECURSIVE fetch_issues_loop(_, _, _, _)
fetch_issues_loop(id_batches, offsets, budget, issue_infos) ==
    IF id_batches = <<>>
    THEN [result |-> unique(issue_infos), raised |-> None, budget |-> budget]
    ELSE IF budget = 0
    THEN [result |-> unique(issue_infos), raised |-> None, budget |-> 0]
    ELSE LET id_batch == Head(id_batches)
             pages == offsets[id_batch]
         IN  IF pages > budget - 1
             THEN [result |-> <<>>, raised |-> "CVRateLimitReached",
                   budget |-> 0]
             ELSE fetch_issues_loop(Tail(id_batches), offsets,
                      budget - 1 - pages,
                      issue_infos \o [p \in 1..(pages + 1) |->
                                          <<id_batch, p - 1>>])

fetch_issues(cv_ids, offsets, budget) ==
    fetch_issues_loop(cv_ids, offsets, budget, <<>>)

InitCatalogVars ==
    /\ cv_budget \in 0..MaxBudget
    /\ last_fetch = NoFetch

FetchVolumes ==
    \E n \in 0..MaxIds :
        LET r == fetch_volumes([i \in 1..n |-> i], cv_budget)
        IN  /\ cv_budget' = r.budget
            /\ last_fetch' = [op |-> "fetch_volumes", ids |-> n,
                              offsets |-> <<>>, budget |-> cv_budget,
                              result |-> r.result, raised |-> r.raised]
            /\ UNCHANGED nonCatalogVars

FetchIssues ==
    \E n \in 0..MaxIds :
        \E offsets \in [1..n -> 0..MaxOffsets] :
            LET r == fetch_issues([i \in 1..n |-> i], offsets, cv_budget)
            IN  /\ cv_budget' = r.budget
                /\ last_fetch' = [op |-> "fetch_issues", ids |-> n,
                                  offsets |-> offsets, budget |-> cv_budget,
                                  result |-> r.result, raised |-> r.raised]
                /\ UNCHANGED nonCatalogVars

\* the rate limit window of the catalog passes
CatalogRecovers ==
    /\ cv_budget' \in 0..MaxBudget
    /\ last_fetch' = NoFetch
    /\ UNCHANGED nonCatalogVars

NextCatalog == FetchVolumes \/ FetchIssues \/ CatalogRecovers

InitCatalog == InitCatalogVars /\ IdleNonCatalogVars

SpecCatalog == InitCatalog /\ [][NextCatalog]_vars

\* C12: a bulk fetch that meets the rate limit (or an authentication error)
\* of the catalog raises nothing: it returns the list gathered so far.
C12_BulkFetchTruncates ==
    last_fetch.op \in {"fetch_volumes", "fetch_issues"}
        => last_fetch.raised = None

(***************************************************************************)
(* The search of all sources for several queries                           *)
(* (backend/features/search.py, search_multiple_queries).  The search of   *)
(* a source for a query gives a list of links or raises.                   *)
(***************************************************************************)
NumSources == 2
NumQueries == 2

SearchSource == 1..NumSources
Queries == 1..NumQueries
Links == {"l1", "l2"}

\* what Source(query).search(session) can give
SearchAnswers ==
    {[raises |-> TRUE, links |-> <<>>]}
    \cup {[raises |-> FALSE, links |-> l] :
            l \in {<<>>, <<"l1">>, <<"l2">>, <<"l1", "l2">>}}

\* the searches in the order of the comprehension: for each source, each query
searches(queries) ==
    [i \in 1..(NumSources * Len(queries)) |->
        <<((i - 1) \div Len(queries)) + 1,
          queries[((i - 1) % Len(queries)) + 1]>>]

\* the loop over the responses: a link is added once
RECURSIVE merge_responses(_, _)
merge_responses(responses, search_results) ==
    IF responses = <<>> THEN search_results
    ELSE merge_responses(Tail(responses),
             search_results \o
             SelectSeq(unique(Head(responses)),
                       LAMBDA link : link \notin Range(search_results)))

\* gather() without return_exceptions passes on the first exception
search_multiple_queries(queries, answers) ==
    LET started == searches(queries)
        responses == [i \in 1..Len(started) |-> answers[started[i]]]
    IN  IF \E i \in 1..Len(responses) : responses[i].raises
        THEN [raised |-> "ClientError", result |-> <<>>]
        ELSE [raised |-> None,
              result |-> merge_responses(
                             [i \in 1..Len(responses) |-> responses[i].links],
                             <<>>)]

InitQueriesVars ==
    /\ search_answers = [s \in SearchSource \X Queries |->
                            [raises |-> FALSE, links |-> <<>>]]
    /\ last_queries = NoQueries

\* a source gets other content for a query, or stops answering
SourceChanges ==
    \E s \in SearchSource \X Queries, a \in SearchAnswers :
        /\ search_answers' = [search_answers EXCEPT ![s] = a]
        /\ last_queries' = NoQueries
        /\ UNCHANGED nonQueriesVars

SearchMultipleQueries ==
    \E queries \in {<<1>>, <<2>>, <<1, 2>>, <<2, 1>>} :
        LET r == search_multiple_queries(queries, search_answers)
        IN  /\ last_queries' = [op |-> "search", queries |-> queries,
                                raised |-> r.raised, result |-> r.result]
            /\ UNCHANGED search_answers
            /\ UNCHANGED nonQueriesVars

NextQueries == SourceChanges \/ SearchMultipleQueries

InitQueries == InitQueriesVars /\ IdleNonQueriesVars

SpecQueries == InitQueries /\ [][NextQueries]_vars

\* C13: the failure of a source, or of one query against a source, is not
\* passed on: the call returns, and every link that a search that did not
\* fail gives is in the result.
C13_FailureCaptured ==
    last_queries.op = "search" =>
        /\ last_queries.raised = None
        /\ \A s \in SearchSource, i \in 1..Len(last_queries.queries) :
               LET a == search_answers[<<s, last_queries.queries[i]>>]
               IN  ~a.raises => Range(a.links) \subseteq Range(last_queries.result)

(***************************************************************************)
(* Converting files (backend/implementations/converters.py and             *)
(* conversion.py).  A file is <<name, format>>.  The archive "a" holds one *)
(* issue file, "a1.cbz"; the archive "b" holds nothing that is scannable.  *)
(* The settings and the availability of the rar tool are read at each call *)
(* and are inputs of the actions.                                          *)
(***************************************************************************)
MaxPreference == 2
MaxArchives == 1

ArchiveNames == {"a", "b"}
Formats == {"zip", "cbz", "rar", "cbr"}

\* ConvertersManager.converters as the decorators fill it
converters ==
    [source_format \in Formats |-> (Formats \ {source_format}) \cup {"folder"}]

formats_convertible_to_folder ==
    {source_format \in DOMAIN converters : "folder" \in converters[source_format]}

\* the values of settings.format_preference
Preferences ==
    {p \in UNION {[1..n -> Formats] : n \in 0..MaxPreference} : NoDuplicates(p)}

\* the loop of select_converter over the format preference
RECURSIVE walk_format_preference(_, _)
walk_format_preference(source_format, format_preference) ==
    IF format_preference = <<>> THEN None
    ELSE IF source_format = Head(format_preference) THEN None
    ELSE IF source_format \notin DOMAIN converters THEN "KeyError"
    ELSE IF Head(format_preference) \in converters[source_format]
    THEN Head(format_preference)
    ELSE walk_format_preference(source_format, Tail(format_preference))

\* the target format of the proposed conversion, None for no conversion.
\* contains_issues: settings.extract_issue_ranges and archive_contains_issues
select_converter(source_format, format_preference, contains_issues) ==
    IF contains_issues /\ source_format \in formats_convertible_to_folder
    THEN "folder"
    ELSE walk_format_preference(source_format, format_preference)

\* what a converter leaves: the list it returns, the exception that left it,
\* the files on disk, the files it had scanned in, and what became of the
\* extraction folder of the archive
Converted(result, raised, on_disk, scanned, folder) ==
    [result |-> result, raised |-> raised, disk |-> on_disk,
     scanned |-> scanned, folder |-> folder]

\* the steps of a conversion that can raise: ZipFile.extractall (extract),
\* create_zip_archive (pack), rename_file (move)
Fails == {"none", "extract", "pack", "move"}

\* zip_to_cbz, cbz_to_zip, rar_to_cbr, cbr_to_rar
rename_to(file, target, on_disk, fail) ==
    IF fail = "move"
    THEN Converted(<<>>, "OSError", on_disk, {}, "untouched")
    ELSE Converted(<<<<file[1], target>>>>, None,
                   (on_disk \ {file}) \cup {<<file[1], target>>}, {}, "untouched")

\* zip_to_rar, cbz_to_rar
zip_to_rar(file, on_disk, rar, matched, fail) ==
    IF ~rar THEN Converted(<<>>, None, on_disk, {}, "untouched")
    ELSE IF ~matched THEN Converted(<<file>>, None, on_disk, {}, "untouched")
    ELSE IF fail = "extract"
    THEN Converted(<<>>, "BadZipFile", on_disk, {}, "exists")
    ELSE Converted(<<<<file[1], "rar">>>>, None,
                   (on_disk \ {file}) \cup {<<file[1], "rar">>}, {}, "deleted")

\* rar_to_zip, cbr_to_zip
rar_to_zip(file, on_disk, rar, matched, fail) ==
    IF ~rar THEN Converted(<<>>, None, on_disk, {}, "untouched")
    ELSE IF ~matched THEN Converted(<<file>>, None, on_disk, {}, "untouched")
    ELSE IF fail = "pack"
    THEN Converted(<<>>, "OSError", on_disk, {}, "exists")
    ELSE Converted(<<<<file[1], "zip">>>>, None,
                   (on_disk \ {file}) \cup {<<file[1], "zip">>}, {}, "deleted")

\* zip_to_cbr, cbz_to_cbr, rar_to_cbz, cbr_to_cbz: first the other archive
\* type, then the rename of element 0 of what that gave
through_archive(first, file, target, fail) ==
    IF first.raised # None THEN first
    ELSE IF first.result = <<>>
    THEN Converted(<<>>, "IndexError", first.disk, {}, first.folder)
    ELSE IF first.result[1] = file THEN first
    ELSE LET second == rename_to(first.result[1], target, first.disk, fail)
         IN  Converted(second.result, second.raised, second.disk, {},
                       first.folder)

\* the issue files inside the archive
archive_content(file) == IF file[1] = "a" THEN <<<<"a1", "cbz">>>> ELSE <<>>

\* zip_to_folder, cbz_to_folder (extracts_with_rar = FALSE) and
\* rar_to_folder, cbr_to_folder; with extract_files_from_folder
to_folder(file, on_disk, extracts_with_rar, rar, matched, fail) ==
    IF extracts_with_rar /\ ~rar
    THEN Converted(<<>>, None, on_disk, {}, "untouched")
    ELSE IF ~matched
    THEN Converted(<<>>, "IndexError", on_disk, {}, "untouched")
    ELSE IF ~extracts_with_rar /\ fail = "extract"
    THEN Converted(<<>>, "BadZipFile", on_disk, {}, "exists")
    ELSE IF fail = "move" /\ archive_content(file) # <<>>
    THEN Converted(<<>>, "OSError", on_disk, {}, "exists")
    ELSE Converted(archive_content(file), None,
                   (on_disk \ {file}) \cup Range(archive_content(file)),
                   Range(archive_content(file)), "deleted")

\* converters[source_format][target_format](file)
convert_file(file, target, on_disk, rar, matched, fail) ==
    LET source == file[2]
        from_zip == source \in {"zip", "cbz"}
    IN  CASE target = "folder" ->
                to_folder(file, on_disk, ~from_zip, rar, matched, fail)
          [] from_zip /\ target \in {"zip", "cbz"} ->
                rename_to(file, target, on_disk, fail)
          [] ~from_zip /\ target \in {"rar", "cbr"} ->
                rename_to(file, target, on_disk, fail)
          [] from_zip /\ target = "rar" ->
                zip_to_rar(file, on_disk, rar, matched, fail)
          [] from_zip /\ target = "cbr" ->
                through_archive(zip_to_rar(file, on_disk, rar, matched, fail),
                                file, "cbr", fail)
          [] ~from_zip /\ target = "zip" ->
                rar_to_zip(file, on_disk, rar, matched, fail)
          [] ~from_zip /\ target = "cbz" ->
                through_archive(rar_to_zip(file, on_disk, rar, matched, fail),
                                file, "cbz", fail)

InitConvertVars ==
    /\ conv_files = {}
    /\ extract_folders = {}
    /\ last_convert = NoConversion

\* a file comes into the volume folder and a scan registers it
ImportArchive ==
    \E name \in ArchiveNames, format \in Formats \cup {"jpg"} :
        /\ Cardinality({f \in conv_files : f[1] \in ArchiveNames}) < MaxArchives
        /\ conv_files' = conv_files \cup {<<name, format>>}
        /\ last_convert' = NoConversion
        /\ UNCHANGED extract_folders
        /\ UNCHANGED nonConvertVars

\* the file is deleted from the library and the disk, with what an earlier
\* conversion left of it
DeleteArchive ==
    \E f \in conv_files :
        /\ conv_files' = conv_files \ {f}
        /\ extract_folders' = extract_folders \ {f[1]}
        /\ last_convert' = NoConversion
        /\ UNCHANGED nonConvertVars

\* ProposedConversion.perform_conversion: the converter runs on an archive of
\* the volume; matched tells whether FilesDB.volume_of_file finds the volume of the file
ConvertFile ==
    \E file \in conv_files, target \in Formats \cup {"folder"},
       rar \in BOOLEAN, matched \in BOOLEAN, fail \in Fails :
        /\ file[1] \in ArchiveNames
        /\ file[2] \in DOMAIN converters
        /\ target \in converters[file[2]]
        /\ LET r == convert_file(file, target, conv_files, rar, matched, fail)
           IN  /\ conv_files' = r.disk
               /\ extract_folders' =
                      CASE r.folder = "exists" -> extract_folders \cup {file[1]}
                        [] r.folder = "deleted" -> extract_folders \ {file[1]}
                        [] OTHER -> extract_folders
               /\ last_convert' =
                      [op |-> "convert", file |-> file, target |-> target,
                       rar |-> rar, matched |-> matched, fail |-> fail,
                       result |-> r.result, raised |-> r.raised,
                       folder |-> r.folder]
        /\ UNCHANGED nonConvertVars

\* mass_convert(volume_id): the proposal of select_converter is a
\* ProposedConversion, which the planning loop subscripts (converter[1])
MassConvert ==
    \E format_preference \in Preferences, extract_issue_ranges \in BOOLEAN,
       update_websocket_progress \in BOOLEAN :
        LET proposal(f) ==
                select_converter(f[2], format_preference,
                    extract_issue_ranges /\ archive_content(f) # <<>>)
            proposed == {f \in conv_files : proposal(f) # None}
            ended(raised) ==
                [op |-> "mass", format_preference |-> format_preference,
                 update_websocket_progress |-> update_websocket_progress,
                 proposed |-> Cardinality(proposed), events |-> <<>>,
                 result |-> <<>>, raised |-> raised]
        IN  /\ IF proposed = {}
               THEN last_convert' = ended(None)
               ELSE \E f \in proposed :
                        last_convert' =
                            ended(IF proposal(f) = "KeyError"
                                  THEN "KeyError" ELSE "TypeError")
            /\ UNCHANGED <<conv_files, extract_folders>>
            /\ UNCHANGED nonConvertVars

NextConvert == ImportArchive \/ DeleteArchive \/ ConvertFile \/ MassConvert

InitConvert == InitConvertVars /\ IdleNonConvertVars

SpecConvert == InitConvert /\ [][NextConvert]_vars

\* select_converter as a function of the file's format and the settings:
\* every input is an initial state
InitSelect ==
    /\ conv_files = {}
    /\ extract_folders = {}
    /\ last_convert \in
           [op : {"input"}, source_format : Formats \cup {"jpg"},
            format_preference : Preferences, contains_issues : BOOLEAN]
    /\ IdleNonConvertVars

\* ConvertersManager.select_converter(filepath)
SelectConverter ==
    /\ last_convert.op = "input"
    /\ last_convert' =
           [op |-> "select", source_format |-> last_convert.source_format,
            format_preference |-> last_convert.format_preference,
            contains_issues |-> last_convert.contains_issues,
            result |-> select_converter(last_convert.source_format,
                                        last_convert.format_preference,
                                        last_convert.contains_issues)]
    /\ UNCHANGED <<conv_files, extract_folders>>
    /\ UNCHANGED nonConvertVars

SpecSelect == InitSelect /\ [][SelectConverter]_vars

\* C14: without the rar tool a conversion that needs it returns the list
\* with just the input path, leaves the file on disk and raises nothing.
C14_RarUnavailableKeepsFile ==
    (/\ last_convert.op = "convert"
     /\ ~last_convert.rar
     /\ last_convert.matched
     /\ last_convert.fail = "none"
     /\ IF last_convert.file[2] \in {"zip", "cbz"}
        THEN last_convert.target \in {"rar", "cbr"}
        ELSE last_convert.target \in {"zip", "cbz", "folder"})
        => /\ last_convert.raised = None
           /\ last_convert.result = <<last_convert.file>>
           /\ last_convert.file \in conv_files

\* C15: the extraction folder of the archive does not exist when the
\* conversion ends, also when a step of the conversion raised.
C15_ExtractFolderRemoved ==
    last_convert.op = "convert" => last_convert.folder # "exists"

\* C16: when the extract rule does not apply, select_converter gives the
\* first format of the preference that the file has or can be converted to:
\* no conversion for the file's own format, that format otherwise, and no
\* conversion when there is none; for every format of a file.
C16_WalksPreference ==
    (/\ last_convert.op = "select"
     /\ ~(last_convert.contains_issues
          /\ last_convert.source_format \in formats_convertible_to_folder))
        => LET source == last_convert.source_format
               preference == last_convert.format_preference
               reachable(p) ==
                   \/ p = source
                   \/ source \in DOMAIN converters /\ p \in converters[source]
               hits == {i \in 1..Len(preference) : reachable(preference[i])}
               first == CHOOSE i \in hits : \A j \in hits : i <= j
           IN  last_convert.result =
                   IF hits = {} THEN None
                   ELSE IF preference[first] = source THEN None
                   ELSE preference[first]

\* C17: with progress updates and N >= 1 planned conversions mass_convert
\* emits Converted k/N for k = 0..N, each once and in increasing order.
C17_ProgressEvents ==
    (/\ last_convert.op = "mass"
     /\ last_convert.update_websocket_progress
     /\ last_convert.proposed >= 1)
        => last_convert.events = [k \in 1..(last_convert.proposed + 1) |-> k - 1]

(***************************************************************************)
(* The event bus (backend/internals/server.py): WebSocket.emit in the main *)
(* process and in a worker process, and the thread of the main process     *)
(* that listens on the queue.  The events of a task are numbered in the    *)
(* order in which they are emitted.                                        *)
(***************************************************************************)
MaxEvents == 5

Subscribers == {"s1", "s2"}

\* PubSubManager._handle_emit in the main process: the event goes to every
\* participant of the namespace
_handle_emit(delivered, event) ==
    [s \in Subscribers |-> Append(delivered[s], event)]

InitWsVars ==
    /\ ws_emitted = 0
    /\ ws_queue = <<>>
    /\ ws_delivered = [s \in Subscribers |-> <<>>]

\* WebSocket.emit with cm.write_only false: SocketIO.emit, which handles the
\* event in this host and publishes it for the other hosts
MainEmit ==
    /\ ws_emitted < MaxEvents
    /\ ws_emitted' = ws_emitted + 1
    /\ ws_delivered' = _handle_emit(ws_delivered, ws_emitted + 1)
    /\ ws_queue' = Append(ws_queue, [host_id |-> "main",
                                     event |-> ws_emitted + 1])
    /\ UNCHANGED nonWsVars

\* WebSocket.emit with cm.write_only true: the worker has no participants,
\* the message goes on the queue
WorkerEmit ==
    /\ ws_emitted < MaxEvents
    /\ ws_emitted' = ws_emitted + 1
    /\ ws_queue' = Append(ws_queue, [host_id |-> "worker",
                                     event |-> ws_emitted + 1])
    /\ UNCHANGED ws_delivered
    /\ UNCHANGED nonWsVars

\* one round of the WebSocketQueueThread: _listen yields the next message,
\* and a message of another host is handled
Listen ==
    /\ ws_queue # <<>>
    /\ ws_queue' = Tail(ws_queue)
    /\ ws_delivered' = IF Head(ws_queue).host_id # "main"
                       THEN _handle_emit(ws_delivered, Head(ws_queue).event)
                       ELSE ws_delivered
    /\ UNCHANGED ws_emitted
    /\ UNCHANGED nonWsVars

\* the task ends and the next one starts, with new subscribers
TaskEnds ==
    /\ ws_emitted > 0
    /\ ws_queue = <<>>
    /\ ws_emitted' = 0
    /\ ws_delivered' = [s \in Subscribers |-> <<>>]
    /\ UNCHANGED ws_queue
    /\ UNCHANGED nonWsVars

NextWs == MainEmit \/ WorkerEmit \/ Listen \/ TaskEnds

InitWs == InitWsVars /\ IdleNonWsVars

SpecWs == InitWs /\ [][NextWs]_vars

\* C18: each subscriber gets the events of a task in the order in which
\* they were emitted, whether the main process or a worker emitted them.
C18_DeliveredInEmissionOrder ==
    \A s \in DOMAIN ws_delivered :
        \A i, j \in 1..Len(ws_delivered[s]) :
            i < j => ws_delivered[s][i] < ws_delivered[s][j]

(***************************************************************************)
(* The HTTP wrapper (backend/base/helpers.py): AsyncSession._request.      *)
(* A round of the loop issues the request and gets an answer: a            *)
(* ClientError, a status of the retry list, a 403 with or without the      *)
(* challenge header of CloudFlare, or another status.                      *)
(***************************************************************************)
\* Constants.TOTAL_RETRIES
TOTAL_RETRIES == 5

Answers == {"ClientError", "forcelist", "cf_block", "forbidden", "other"}

InitRqVars ==
    /\ rq_round = 0
    /\ rq_sleep_time = 0
    /\ rq_requests = 0
    /\ rq_retries = <<>>
    /\ rq_result = "none"

\* _request is called: sleep_time = BACKOFF_FACTOR_RETRIES, round = 1
StartRequest ==
    /\ rq_round = 0
    /\ rq_round' = 1
    /\ rq_sleep_time' = 1
    /\ rq_requests' = 0
    /\ rq_retries' = <<>>
    /\ rq_result' = "none"
    /\ UNCHANGED nonRqVars

\* the round ends the call
Ends(result, requests) ==
    /\ rq_round' = 0
    /\ rq_result' = result
    /\ rq_requests' = requests
    /\ UNCHANGED <<rq_sleep_time, rq_retries>>

\* the round is followed by the next one, or by the raise after the loop
Continues(answer, waited) ==
    /\ rq_requests' = rq_requests + 1
    /\ rq_retries' = Append(rq_retries, [answer |-> answer, waited |-> waited])
    /\ rq_sleep_time' = IF waited = 0 THEN rq_sleep_time ELSE rq_sleep_time * 2
    /\ IF rq_round = TOTAL_RETRIES
       THEN rq_round' = 0 /\ rq_result' = "ClientError"
       ELSE rq_round' = rq_round + 1 /\ UNCHANGED rq_result

\* one round of the loop.  fs_setup: FlareSolverr has a session;
\* fs_requests, fs_raises: the requests that the post of
\* handle_cf_block_async issues through this session and how it ends
Round ==
    \E answer \in Answers, fs_setup \in BOOLEAN,
       fs_requests \in 1..TOTAL_RETRIES, fs_raises \in BOOLEAN :
        /\ rq_round \in 1..TOTAL_RETRIES
        /\ fs_raises => fs_requests = TOTAL_RETRIES
        /\ CASE answer \in {"ClientError", "forcelist"} ->
                    IF rq_round = TOTAL_RETRIES
                    THEN Ends("ClientError", rq_requests + 1)
                    ELSE Continues(answer, rq_sleep_time)
             [] rq_round = 1 /\ answer = "forbidden" ->
                    Continues(answer, 0)
             [] rq_round = 1 /\ answer = "cf_block" ->
                    IF ~fs_setup THEN Continues(answer, 0)
                    ELSE Ends(IF fs_raises THEN "ClientError" ELSE "response",
                              rq_requests + 1 + fs_requests)
             [] OTHER -> Ends("response", rq_requests + 1)
        /\ UNCHANGED nonRqVars

NextRq == StartRequest \/ Round

InitRq == InitRqVars /\ IdleNonRqVars

SpecRq == InitRq /\ [][NextRq]_vars

\* C19: a call issues at most TOTAL_RETRIES underlying requests, retries
\* only after a connection error or a status of the retry list, and waits
\* before each retry a time that doubles from one retry to the next.
C19_BoundedRetries ==
    /\ rq_requests <= TOTAL_RETRIES
    /\ \A i \in 1..Len(rq_retries) :
           /\ rq_retries[i].answer \in {"ClientError", "forcelist"}
           /\ rq_retries[i].waited > 0
           /\ i > 1 => rq_retries[i].waited = 2 * rq_retries[i - 1].waited

(***************************************************************************)
(* Ranker: the keys manual_search sorts the results of one search by.      *)
(* An optional number is <<>> (None) or <<n>>.                             *)
(***************************************************************************)

MaxRanked == 3

\* result["issue_number"]: None, a float, or a (first, last) tuple.
RankedIssueNumbers ==
    {[kind |-> "none", lo |-> 0, hi |-> 0]}
    \cup {[kind |-> "float", lo |-> i, hi |-> i] : i \in 1..2}
    \cup {[kind |-> "tuple", lo |-> 1, hi |-> 2]}

\* The special version goes into the key of a result without issue number.
RankedVersions ==
    {<<n, "none">> : n \in RankedIssueNumbers}
    \cup {<<n, "tpb">> : n \in {m \in RankedIssueNumbers : m.kind = "none"}}

\* The results check_search_result_match has annotated.  words is the number
\* of words of result["series"] that the searched title does not have.
RankedResults ==
    {[match |-> m, words |-> w, volume_number |-> vy[1], year |-> vy[2],
      issue_number |-> nv[1], special_version |-> nv[2]] :
        m \in BOOLEAN, w \in 0..MaxWords,
        vy \in {<< <<>>, <<>> >>, << <<1>>, <<2001>> >>, << <<>>, <<2002>> >>},
        nv \in RankedVersions}

\* A volume search, and the search for issue 1 whose release year is known.
RankedSearches ==
    {[volume_number |-> 1, year |-> << <<2000>>, <<>> >>,
      calculated_issue_number |-> <<>>],
     [volume_number |-> 1, year |-> << <<2000>>, <<2001>> >>,
      calculated_issue_number |-> <<1>>]}

Bool(b) == IF b THEN 1 ELSE 0

vy_score(result, volume_number, year) ==
    3
    - Bool(result.volume_number = <<volume_number>>)
    - (IF year[2] # <<>> /\ result.year = year[2] THEN 2
       ELSE IF /\ year[1] # <<>>
               /\ year[2] # <<>>
               /\ result.year # <<>>
               /\ year[1][1] - 1 <= result.year[1]
               /\ result.year[1] <= year[2][1] + 1
       THEN 1
       ELSE 0)

\* The last component.  int(1 - 1 / width) of a width of at least 1 is
\* (width - 1) \div width, int(1.0 / width) is 1 \div width.
issue_fit(result, calculated_issue_number) ==
    LET n == result.issue_number
        width == n.hi - n.lo + 1
    IN  IF calculated_issue_number # <<>>
        THEN IF n.kind = "float" /\ calculated_issue_number[1] = n.lo
             THEN <<0>>
             ELSE IF n.kind = "tuple"
             THEN IF n.lo <= calculated_issue_number[1]
                     /\ calculated_issue_number[1] <= n.hi
                  THEN <<(width - 1) \div width>>
                  ELSE <<3>>
             ELSE IF result.special_version # "none"
             THEN <<2>>
             ELSE <<3>>
        ELSE IF n.kind = "tuple" THEN <<1 \div width>>
             ELSE IF n.kind = "float" THEN <<1>>
             ELSE <<>>

\* A ranker that puts the matches last.
matches_last(result, volume_number, year, calculated_issue_number) ==
    <<Bool(result.match), result.words,
      vy_score(result, volume_number, year)>>
    \o issue_fit(result, calculated_issue_number)

_rank_search_result(result, volume_number, year, calculated_issue_number) ==
    <<Bool(~result.match), result.words,
      vy_score(result, volume_number, year)>>
    \o issue_fit(result, calculated_issue_number)

InitRankVars ==
    /\ rk_search \in RankedSearches
    /\ rk_results \in {Range(rs) : rs \in [1..MaxRanked -> RankedResults]}
    /\ rk_keys = <<>>

\* manual_search: the key of each result, as results.sort computes it.
RankResults ==
    /\ rk_keys = <<>>
    /\ rk_keys' = [r \in rk_results |->
                     _rank_search_result(r, rk_search.volume_number,
                                         rk_search.year,
                                         rk_search.calculated_issue_number)]
    /\ UNCHANGED <<rk_search, rk_results>>
    /\ UNCHANGED nonRankVars

NextRank == RankResults

InitRank == InitRankVars /\ IdleNonRankVars

SpecRank == InitRank /\ [][NextRank]_vars

\* C20: the comparison of the rank keys of the results of one search is a
\* total order (of any two keys exactly one is smaller or they are equal,
\* and smaller-than is transitive), whatever mix of single issue numbers,
\* ranges and missing issue numbers the results have, and the key of every
\* match is strictly smaller than the key of every result that is no match.
C20_RankIsTotalOrder ==
    rk_keys # <<>> =>
        /\ \A a, b \in rk_results :
              /\ ~(ListLess(rk_keys[a], rk_keys[b])
                   /\ ListLess(rk_keys[b], rk_keys[a]))
              /\ ~ListLess(rk_keys[a], rk_keys[b])
                   /\ ~ListLess(rk_keys[b], rk_keys[a])
                 => rk_keys[a] = rk_keys[b]
              /\ rk_keys[a] = rk_keys[b] => ~ListLess(rk_keys[a], rk_keys[b])
        /\ \A a, b, c \in rk_results :
              ListLess(rk_keys[a], rk_keys[b])
              /\ ListLess(rk_keys[b], rk_keys[c])
              => ListLess(rk_keys[a], rk_keys[c])
        /\ \A a, b \in rk_results :
              a.match /\ ~b.match => ListLess(rk_keys[a], rk_keys[b])

\* A volume search has ranked a match without issue number, a match with a
\* single issue number and a range that is no match.
C20_Witness ==
    /\ rk_keys # <<>>
    /\ rk_search.calculated_issue_number = <<>>
    /\ \E a, b, c \in rk_results :
          /\ a.match /\ a.issue_number.kind = "none"
          /\ b.match /\ b.issue_number.kind = "float"
          /\ ~c.match /\ c.issue_number.kind = "tuple"
          /\ Len(rk_keys[a]) = 3
          /\ Len(rk_keys[b]) = 4
          /\ ListLess(rk_keys[a], rk_keys[c])
          /\ ListLess(rk_keys[b], rk_keys[c])

\* C21: in an issue search, of two results equal in the earlier components
\* of the key, the one whose issue number is the queried number has a
\* strictly smaller key than the one whose range contains the number, the
\* penalty of a range of more than one issue lying strictly between 0 and 1.
C21_ExactBeforeRange ==
    rk_keys # <<>> /\ rk_search.calculated_issue_number # <<>> =>
        \A a, b \in rk_results :
            /\ SubSeq(rk_keys[a], 1, 3) = SubSeq(rk_keys[b], 1, 3)
            /\ a.issue_number.kind = "float"
            /\ a.issue_number.lo = rk_search.calculated_issue_number[1]
            /\ b.issue_number.kind = "tuple"
            /\ b.issue_number.lo <= rk_search.calculated_issue_number[1]
            /\ rk_search.calculated_issue_number[1] <= b.issue_number.hi
            /\ b.issue_number.lo < b.issue_number.hi
            => ListLess(rk_keys[a], rk_keys[b])

(***************************************************************************)
(* Matching: match_volume_number.                                          *)
(* An optional number is <<>> (None) or <<n>>; a check number is a record  *)
(* of kind "none", "int" or "tuple".                                       *)
(***************************************************************************)

MaxNumber == 3

VolumeYear == MaxNumber + 1

CheckNumbers ==
    {[kind |-> "none", lo |-> 0, hi |-> 0]}
    \cup {[kind |-> "int", lo |-> n, hi |-> n] : n \in 1..(MaxNumber + 2)}
    \cup {[kind |-> "tuple", lo |-> a, hi |-> b] :
            a \in 1..MaxNumber, b \in 1..MaxNumber}

\* The volumes: volume number, year, special version and the calculated
\* issue numbers of the issues.
MatchedVolumes ==
    {[volume_number |-> <<vn>>, year |-> y, special_version |-> sv,
      issues |-> is] :
        vn \in 1..2, y \in {<<>>, <<VolumeYear>>},
        sv \in {"normal", "volume-as-issue"},
        is \in SUBSET (1..MaxNumber)}

match_year(reference_year, check_year, conservative) ==
    IF reference_year = <<>> \/ check_year = <<>> THEN conservative
    ELSE /\ reference_year[1] - 1 <= check_year[1]
         /\ check_year[1] <= reference_year[1] + 1

\* numbers = check_number if it is a tuple, else (check_number,)
numbers(check_number) ==
    IF check_number.kind = "tuple"
    THEN <<check_number.lo, check_number.hi>>
    ELSE <<check_number.lo>>

\* The issues whose calculated_issue_number is in numbers.
number_found(volume_issues, check_number) ==
    Cardinality({i \in volume_issues : i \in Range(numbers(check_number))})

match_volume_number(volume_data, volume_issues, check_number, conservative) ==
    IF volume_data.volume_number = <<>> /\ volume_data.year = <<>>
    THEN conservative
    ELSE IF check_number.kind = "none" THEN conservative
    ELSE IF /\ check_number.kind = "int"
            /\ \/ <<check_number.lo>> = volume_data.volume_number
               \/ match_year(volume_data.year, <<check_number.lo>>, FALSE)
    THEN TRUE
    ELSE IF volume_data.special_version # "volume-as-issue" THEN FALSE
    ELSE number_found(volume_issues, check_number)
         = Len(numbers(check_number))

InitMatchVars ==
    /\ mv_call \in [volume_data : MatchedVolumes,
                    check_number : {c \in CheckNumbers :
                                      c.kind = "tuple" => c.lo <= c.hi},
                    conservative : BOOLEAN]
    /\ mv_result = "none"

MatchVolumeNumber ==
    /\ mv_result = "none"
    /\ mv_result' =
         IF match_volume_number(mv_call.volume_data,
                                mv_call.volume_data.issues,
                                mv_call.check_number, mv_call.conservative)
         THEN "True" ELSE "False"
    /\ UNCHANGED mv_call
    /\ UNCHANGED nonMatchVars

NextMatch == MatchVolumeNumber

InitMatch == InitMatchVars /\ IdleNonMatchVars

SpecMatch == InitMatch /\ [][NextMatch]_vars

\* C22: for a check number that is not absent, match_volume_number returns
\* true exactly when the number is the volume number, or lies within one
\* year of the volume's year, or the volume is volume-as-issue and every
\* value of the check number (a single number, or both ends of a range, the
\* ends being equal included) is the calculated number of an issue.
C22_MatchVolumeNumber ==
    mv_result # "none" /\ mv_call.check_number.kind # "none" =>
        LET v == mv_call.volume_data
            c == mv_call.check_number
        IN  (mv_result = "True") <=>
               \/ c.kind = "int" /\ <<c.lo>> = v.volume_number
               \/ /\ c.kind = "int"
                  /\ v.year # <<>>
                  /\ v.year[1] - 1 <= c.lo
                  /\ c.lo <= v.year[1] + 1
               \/ /\ v.special_version = "volume-as-issue"
                  /\ c.lo \in v.issues
                  /\ c.hi \in v.issues

(***************************************************************************)
(* Naming formats: check_mock_filename.                                    *)
(* A format is described by what it renders: the number behind a volume    *)
(* label ("Volume {volume_number}" or "Volume {issue_number}"), the issue  *)
(* number as an issue ("#{issue_number}") and the year.  Every format      *)
(* renders the series name.                                                *)
(***************************************************************************)

NamingKinds ==
    {"file_naming", "file_naming_empty", "file_naming_special_version",
     "file_naming_vai"}

NamingFormats ==
    [volume_label : {"none", "volume_number", "issue_number"},
     issue_label : {"none", "issue_number"},
     year : BOOLEAN]

MockYear == 2023

\* naming_mocks: the volume and the calculated number of its one issue.
naming_mocks(key) ==
    IF key = "file_naming_special_version"
    THEN {[volume_number |-> <<2>>, year |-> <<MockYear>>,
           special_version |-> "one-shot", issues |-> {1}],
          [volume_number |-> <<2>>, year |-> <<MockYear>>,
           special_version |-> "tpb", issues |-> {1}]}
    ELSE IF key = "file_naming_vai"
    THEN {[volume_number |-> <<2>>, year |-> <<MockYear>>,
           special_version |-> "volume-as-issue", issues |-> {8}]}
    ELSE {[volume_number |-> <<2>>, year |-> <<MockYear>>,
           special_version |-> "normal", issues |-> {3}]}

issue_mock(volume_mock) == CHOOSE i \in volume_mock.issues : TRUE

\* format_map over the naming keys: the keys of a special version have no
\* issue_number.
format_raises(key, format) ==
    /\ key = "file_naming_special_version"
    /\ \/ format.volume_label = "issue_number"
       \/ format.issue_label = "issue_number"

\* extract_filename_data of the rendered name: a number behind a volume
\* label is the volume number, a number rendered as an issue is the issue
\* number, and a name without issue number is taken for a TPB.
extract_filename_data(format, volume_mock) ==
    [issue_number |->
        IF format.issue_label = "issue_number"
        THEN <<issue_mock(volume_mock)>> ELSE <<>>,
     volume_number |->
        IF format.volume_label = "volume_number"
        THEN [kind |-> "int", lo |-> volume_mock.volume_number[1],
              hi |-> volume_mock.volume_number[1]]
        ELSE IF format.volume_label = "issue_number"
        THEN [kind |-> "int", lo |-> issue_mock(volume_mock),
              hi |-> issue_mock(volume_mock)]
        ELSE [kind |-> "none", lo |-> 0, hi |-> 0],
     year |-> IF format.year THEN volume_mock.year ELSE <<>>,
     special_version |->
        IF format.issue_label = "issue_number" THEN "normal" ELSE "tpb"]

match_special_version(reference_version, check_version, issue_number) ==
    \/ check_version \in {reference_version, "cover", "metadata"}
    \/ /\ issue_number = <<1>>
       /\ reference_version \in {"hard-cover", "one-shot", "omnibus"}
    \/ reference_version = "volume-as-issue" /\ check_version = "normal"
    \/ /\ check_version = "tpb"
       /\ reference_version \in {"hard-cover", "one-shot", "omnibus",
                                 "volume-as-issue"}

file_importing_filter(file_data, volume_data) ==
    /\ match_special_version(volume_data.special_version,
                             file_data.special_version,
                             file_data.issue_number)
    /\ \/ match_volume_number(volume_data, volume_data.issues,
                              file_data.volume_number, FALSE)
       \/ match_year(volume_data.year, file_data.year, FALSE)

\* The condition under which check_mock_filename does not raise for a mock.
mock_accepted(key, format, volume_mock) ==
    LET efd == extract_filename_data(format, volume_mock)
    IN  /\ file_importing_filter(efd, volume_mock)
        /\ \/ key = "file_naming_special_version"
           \/ /\ key \in {"file_naming", "file_naming_empty",
                          "file_naming_vai"}
              /\ efd.issue_number = <<issue_mock(volume_mock)>>
           \/ /\ key = "file_naming_vai"
              /\ efd.volume_number.kind = "int"
              /\ efd.volume_number.lo = issue_mock(volume_mock)

check_mock_filename(namings) ==
    IF \E key \in NamingKinds : format_raises(key, namings[key])
    THEN "KeyError"
    ELSE IF \A key \in NamingKinds : \A volume_mock \in naming_mocks(key) :
               mock_accepted(key, namings[key], volume_mock)
    THEN "accepted"
    ELSE "InvalidSettingValue"

InitNamingVars ==
    /\ nm_namings \in [NamingKinds -> NamingFormats]
    /\ nm_result = "none"

CheckMockFilename ==
    /\ nm_result = "none"
    /\ nm_result' = check_mock_filename(nm_namings)
    /\ UNCHANGED nm_namings
    /\ UNCHANGED nonNamingVars

NextNaming == CheckMockFilename

InitNaming == InitNamingVars /\ IdleNonNamingVars

SpecNaming == InitNaming /\ [][NextNaming]_vars

\* C23: when check_mock_filename accepts the formats, then for every kind
\* that renders an issue number (the volume-as-issue kind included) the
\* filename extractor, applied to the rendered mock name, yields exactly the
\* issue number that was rendered.
C23_IssueNumberRecovered ==
    nm_result = "accepted" =>
        \A key \in {"file_naming", "file_naming_empty", "file_naming_vai"} :
            \A volume_mock \in naming_mocks(key) :
                extract_filename_data(nm_namings[key],
                                      volume_mock).issue_number
                = <<issue_mock(volume_mock)>>

(***************************************************************************)
(* Transmission: the login probe of Transmission.test.                     *)
(* An answer is "RequestException" (no connection, or the retries of the   *)
(* adapter used up) or a status; "409+sid" is a 409 that carries the       *)
(* X-Transmission-Session-Id header.                                       *)
(***************************************************************************)

ProbeAnswers ==
    {"RequestException", "409+sid", "409", "200", "401", "403", "500"}

\* Session.request: a 403 of the first round that FlareSolverr does not
\* solve is followed by a second request, whose answer is the result.
session_request(answers) ==
    IF answers[1] = "403" THEN answers[2] ELSE answers[1]

\* Transmission.__api_request(..., for_login=True)
api_request_for_login(answers) ==
    LET response == session_request(answers)
    IN  IF response = "RequestException"
        THEN [raised |-> "ClientNotWorking", response |-> "none"]
        ELSE IF response = "409"
        THEN [raised |-> "ClientNotWorking", response |-> "none"]
        ELSE [raised |-> "none", response |-> response]

\* `raise CredentialInvalid`: the class is instantiated without arguments,
\* and CredentialInvalid.__init__ has the required parameter description.
raise_CredentialInvalid == "TypeError"

\* Transmission._login
_login(answers) ==
    LET auth_request == api_request_for_login(answers)
    IN  IF auth_request.raised # "none" THEN auth_request.raised
        ELSE IF auth_request.response = "409+sid" THEN "returned"
        ELSE IF auth_request.response = "200" THEN "returned"
        ELSE IF auth_request.response \in {"401", "403"}
        THEN raise_CredentialInvalid
        ELSE "ClientNotWorking"

InitLoginVars ==
    /\ tl_probe \in [answers : [1..2 -> ProbeAnswers],
                     username : {"", "user"},
                     password : {"", "password"}]
    /\ tl_result = "none"

\* Transmission.test(base_url, username, password)
TransmissionTest ==
    /\ tl_result = "none"
    /\ tl_result' = _login(tl_probe.answers)
    /\ UNCHANGED tl_probe
    /\ UNCHANGED nonLoginVars

NextLogin == TransmissionTest

InitLogin == InitLoginVars /\ IdleNonLoginVars

SpecLogin == InitLogin /\ [][NextLogin]_vars

\* C25: Transmission.test returns when the client answers the login probe
\* with 409 or a success status, raises CredentialInvalid when it answers 401
\* or 403, raises ClientNotWorking when the connection fails or another
\* status is returned, and raises no other kind of error.
C25_TestOutcomes ==
    tl_result # "none" =>
        LET answer == session_request(tl_probe.answers)
        IN  /\ tl_result \in {"returned", "CredentialInvalid",
                              "ClientNotWorking"}
            /\ answer \in {"409+sid", "409", "200"}
                 => tl_result = "returned"
            /\ answer \in {"401", "403"} => tl_result = "CredentialInvalid"
            /\ answer \in {"RequestException", "500"}
                 => tl_result = "ClientNotWorking"

(***************************************************************************)
(* extract_files_from_folder.                                              *)
(* Paths are sequences of components relative to the volume folder; the    *)
(* extraction folder is its subfolder "X".  A file on disk is a record of  *)
(* its path and its content, the content named after the path where the   *)
(* file came into being.  The extracted files carry the extension that     *)
(* set_detected_extension detects.                                         *)
(***************************************************************************)

source_folder == <<"X">>

\* What an archive can hold: an issue file and a page, in the top folder of
\* the archive and in a subfolder.
ExtractedPaths ==
    {<<"X", "a.cbz">>, <<"X", "s1", "a.cbz">>,
     <<"X", "p.jpg">>, <<"X", "s1", "p.jpg">>}

\* list_files(source_folder), in directory order.
ExtractOrder ==
    <<(<<"X", "a.cbz">>), (<<"X", "p.jpg">>),
      (<<"X", "s1", "a.cbz">>), (<<"X", "s1", "p.jpg">>)>>

\* The files that can lie in the volume folder before the call.
VolumePaths == {<<"a.cbz">>, <<"s1", "p.jpg">>}

basename(path) == path[Len(path)]

dirname(path) == SubSeq(path, 1, Len(path) - 1)

\* file.endswith(FileConstants.IMAGE_EXTENSIONS)
is_image(path) == basename(path) = "p.jpg"

\* The destination of a kept file; dirname of a file directly in the volume
\* folder's subfolder "X" is that folder.
extract_dest(file) ==
    IF is_image(file)
    THEN <<basename(dirname(file)), basename(file)>>
    ELSE <<basename(file)>>

\* rename_file(before, after): nothing is done when after lies inside (or
\* is) before; shutil.move replaces a file that lies at the target.
rename_file(fs, before, after) ==
    IF folder_is_inside_folder(before, after) THEN fs
    ELSE LET moved == CHOOSE f \in fs : f.path = before
         IN  {f \in fs : f.path # before /\ f.path # after}
             \cup {[path |-> after, content |-> moved.content]}

\* delete_file_folder(path) for a folder: rmtree
delete_file_folder(fs, path) ==
    {f \in fs : ~folder_is_inside_folder(path, f.path)}

\* The loop over relevant_files.
RECURSIVE MoveRelevant(_, _, _)
MoveRelevant(fs, relevant_files, result) ==
    IF relevant_files = <<>> THEN [fs |-> fs, result |-> result]
    ELSE LET file == Head(relevant_files)
             dest == extract_dest(file)
         IN  MoveRelevant(rename_file(fs, file, dest), Tail(relevant_files),
                          Append(result, dest))

\* extract_files_from_folder(source_folder, volume_id); matching is the set
\* of files that pass folder_extraction_filter.
extract_files_from_folder(fs, matching) ==
    LET folder_contents ==
            SelectSeq(ExtractOrder, LAMBDA p : \E f \in fs : f.path = p)
        filtered == SelectSeq(folder_contents, LAMBDA p : p \in matching)
        relevant_files == IF filtered = <<>> THEN folder_contents
                          ELSE filtered
        moved == MoveRelevant(fs, relevant_files, <<>>)
    IN  [fs |-> delete_file_folder(moved.fs, source_folder),
         relevant_files |-> relevant_files,
         result |-> moved.result]

NoExtraction == [op |-> "none"]

InitExtractVars ==
    /\ ex_fs = {}
    /\ ex_last = NoExtraction

\* zip.extractall(archive_folder)
ExtractAll ==
    /\ \A f \in ex_fs : ~folder_is_inside_folder(source_folder, f.path)
    /\ \E paths \in SUBSET ExtractedPaths :
         /\ paths # {}
         /\ ex_fs' = ex_fs \cup {[path |-> p, content |-> p] : p \in paths}
    /\ ex_last' = NoExtraction
    /\ UNCHANGED nonExtractVars

\* A file lies in the volume folder, or is taken from it.
VolumeFileChanges ==
    /\ \E p \in VolumePaths :
         ex_fs' = IF \E f \in ex_fs : f.path = p
                  THEN {f \in ex_fs : f.path # p}
                  ELSE ex_fs \cup {[path |-> p, content |-> <<"old">> \o p]}
    /\ ex_last' = NoExtraction
    /\ UNCHANGED nonExtractVars

ExtractFilesFromFolder ==
    /\ \E f \in ex_fs : folder_is_inside_folder(source_folder, f.path)
    /\ \E matching \in SUBSET ExtractedPaths :
         LET out == extract_files_from_folder(ex_fs, matching)
         IN  /\ ex_fs' = out.fs
             /\ ex_last' = [op |-> "extract",
                            relevant_files |-> out.relevant_files,
                            result |-> out.result,
                            before |-> {f \in ex_fs :
                                ~folder_is_inside_folder(source_folder,
                                                         f.path)}]
    /\ UNCHANGED nonExtractVars

NextExtract == ExtractAll \/ VolumeFileChanges \/ ExtractFilesFromFolder

InitExtract == InitExtractVars /\ IdleNonExtractVars

SpecExtract == InitExtract /\ [][NextExtract]_vars

\* C27: extract_files_from_folder loses no kept file: every kept file lies
\* at its returned destination after the source folder has been deleted
\* (image files directly in the extraction folder included), the returned
\* paths are pairwise distinct, and no file that lay in the volume folder
\* before the call has been overwritten.
C27_NoKeptFileLost ==
    ex_last.op = "extract" =>
        /\ \A i \in 1..Len(ex_last.result) :
              [path |-> ex_last.result[i],
               content |-> ex_last.relevant_files[i]] \in ex_fs
        /\ NoDuplicates(ex_last.result)
        /\ ex_last.before \subseteq ex_fs

(***************************************************************************)
(* The conversion pool: archives of one volume converted concurrently.     *)
(* The path of an archive relative to the volume folder is a sequence of   *)
(* components, each component the sequence of its parts between "_", and   *)
(* the extension of the file.                                              *)
(***************************************************************************)

\* a/b.zip, a_b.zip, x.zip and x.cbz
PoolArchives ==
    {[parts |-> << <<"a">>, <<"b">> >>, ext |-> "zip"],
     [parts |-> << <<"a", "b">> >>, ext |-> "zip"],
     [parts |-> << <<"x">> >>, ext |-> "zip"],
     [parts |-> << <<"x">> >>, ext |-> "cbz"]}

\* "_".join(relpath(archive_file, volume_folder).split(sep)), as parts
RECURSIVE join_components(_)
join_components(components) ==
    IF components = <<>> THEN <<>>
    ELSE Head(components) \o join_components(Tail(components))

\* generate_archive_folder(volume_folder, archive_file): splitext drops the
\* extension; the folder is named by the parts behind the common prefix.
generate_archive_folder(archive_file) == join_components(archive_file.parts)

PoolFolders == {generate_archive_folder(a) : a \in PoolArchives}

InitPoolVars ==
    /\ pool_phase = [a \in PoolArchives |-> "idle"]
    /\ pool_folders = [f \in PoolFolders |-> {}]
    /\ pool_packed = [a \in PoolArchives |-> {}]

\* mass_convert: two or more planned conversions go to the pool.
PoolStarts ==
    /\ \A a \in PoolArchives : pool_phase[a] \in {"idle", "done", "failed"}
    /\ \E planned \in SUBSET PoolArchives :
         /\ Cardinality(planned) >= 2
         /\ pool_phase' = [a \in PoolArchives |->
                              IF a \in planned THEN "planned" ELSE "idle"]
    /\ pool_folders' = [f \in PoolFolders |-> {}]
    /\ pool_packed' = [a \in PoolArchives |-> {}]
    /\ UNCHANGED nonPoolVars

\* zip_to_rar in a worker: zip.extractall(archive_folder)
PoolExtract(a) ==
    /\ pool_phase[a] = "planned"
    /\ pool_phase' = [pool_phase EXCEPT ![a] = "extracted"]
    /\ pool_folders' = [pool_folders EXCEPT
                           ![generate_archive_folder(a)] = @ \cup {a}]
    /\ UNCHANGED pool_packed
    /\ UNCHANGED nonPoolVars

\* run_rar(["a", ..., archive_folder]): what lies in the folder is packed;
\* nothing is there when another worker has deleted the folder.
PoolPack(a) ==
    /\ pool_phase[a] = "extracted"
    /\ pool_phase' = [pool_phase EXCEPT ![a] = "packed"]
    /\ pool_packed' = [pool_packed EXCEPT
                          ![a] = pool_folders[generate_archive_folder(a)]]
    /\ UNCHANGED pool_folders
    /\ UNCHANGED nonPoolVars

\* delete_file_folder(archive_folder); delete_file_folder(file)
PoolDelete(a) ==
    /\ pool_phase[a] = "packed"
    /\ pool_phase' = [pool_phase EXCEPT
                         ![a] = IF pool_packed[a] = {} THEN "failed"
                                ELSE "done"]
    /\ pool_folders' = [pool_folders EXCEPT
                           ![generate_archive_folder(a)] = {}]
    /\ UNCHANGED pool_packed
    /\ UNCHANGED nonPoolVars

NextPool ==
    \/ PoolStarts
    \/ \E a \in PoolArchives : PoolExtract(a)
    \/ \E a \in PoolArchives : PoolPack(a)
    \/ \E a \in PoolArchives : PoolDelete(a)

InitPool == InitPoolVars /\ IdleNonPoolVars

SpecPool == InitPool /\ [][NextPool]_vars

\* C28: two distinct archives of a volume that are converted concurrently
\* never share an extraction folder, so a conversion packs and deletes only
\* the files extracted from its own archive.
C28_DistinctExtractionFolders ==
    /\ \A a, b \in PoolArchives :
          /\ a # b
          /\ pool_phase[a] \in {"planned", "extracted", "packed"}
          /\ pool_phase[b] \in {"planned", "extracted", "packed"}
          => generate_archive_folder(a) # generate_archive_folder(b)
    /\ \A a \in PoolArchives :
          pool_phase[a] \in {"packed", "done"} => pool_packed[a] = {a}

(***************************************************************************)
(* Transmission: one RPC call, Transmission.__api_request.                 *)
(* A step is one invocation of __api_request: one request to the client    *)
(* and what the invocation does with the answer.                           *)
(***************************************************************************)

\* The depth of nested calls at which the interpreter raises RecursionError.
RecursionLimit == 4

NumSessionIds == 3

RpcMethods == {"session-get", "torrent-add", "torrent-get", "torrent-remove"}

\* What the client answers: no connection, a 409 with a session id or
\* without one, or another status.
RpcAnswers ==
    {[kind |-> "RequestException", sid |-> 0],
     [kind |-> "409", sid |-> 0],
     [kind |-> "other", sid |-> 0]}
    \cup {[kind |-> "409", sid |-> s] : s \in 1..NumSessionIds}

InitRpcVars ==
    /\ rpc_method = "none"
    /\ rpc_for_login = FALSE
    /\ rpc_sid = 0
    /\ rpc_requests = 0
    /\ rpc_result = "none"

\* The adapter calls __api_request(ssn, base_url, method, arguments,
\* for_login); _login passes for_login=True with session-get.
RpcCall ==
    /\ rpc_result # "running"
    /\ \E method \in RpcMethods :
         /\ rpc_method' = method
         /\ rpc_for_login' = (method = "session-get")
    /\ rpc_requests' = 0
    /\ rpc_result' = "running"
    /\ UNCHANGED rpc_sid
    /\ UNCHANGED nonRpcVars

\* One invocation: ssn.post, and on a 409 with a session id the header is
\* set and, unless for_login, __api_request calls itself.
ApiRequest ==
    /\ rpc_result = "running"
    /\ rpc_requests' = rpc_requests + 1
    /\ \E answer \in RpcAnswers :
         CASE answer.kind = "RequestException" ->
                /\ rpc_result' = "ClientNotWorking"
                /\ UNCHANGED rpc_sid
           [] answer.kind = "409" /\ answer.sid = 0 ->
                /\ rpc_result' = "ClientNotWorking"
                /\ UNCHANGED rpc_sid
           [] answer.kind = "409" /\ answer.sid # 0 ->
                /\ rpc_sid' = answer.sid
                /\ rpc_result' =
                     IF rpc_for_login THEN "response"
                     ELSE IF rpc_requests + 1 >= RecursionLimit
                     THEN "RecursionError"
                     ELSE "running"
           [] OTHER ->
                /\ rpc_result' = "response"
                /\ UNCHANGED rpc_sid
    /\ UNCHANGED <<rpc_method, rpc_for_login>>
    /\ UNCHANGED nonRpcVars

NextRpc == RpcCall \/ ApiRequest

InitRpc == InitRpcVars /\ IdleNonRpcVars

SpecRpc == InitRpc /\ [][NextRpc]_vars

\* C29: every RPC call ends after a number of requests that the adapter
\* bounds: after a 409 with a session id the request is repeated, and a
\* client that answers 409 to every request does not keep the adapter
\* repeating it until the interpreter ends the call.
C29_RepetitionBounded == rpc_result # "RecursionError"

\* ------------------------------------------------------------------
\* Start types: the revert timer of the hosting settings
\* (backend/internals/server.py, frontend/api.py)
\* ------------------------------------------------------------------

\* The timers start_timer can create.
MaxTimers == 3

TimerIds == 1..MaxTimers

\* The values of the hosting setting (the port).
HostingPorts == 1..2

\* StartType members: one with a registered handler, one without.
StartTypes == {"RESTART", "RESTART_HOSTING_CHANGES"}

\* StartTypeHandlers.handlers after the register_handler decorators.
handlers == {"RESTART_HOSTING_CHANGES"}

\* Thread.is_alive of a Timer: from start() until run() has returned,
\* the call of its function included.
is_alive(t) == tm_timers[t].pc \in {"waiting", "fired", "restored"}

\* The timers not yet created.
FreeTimers == {t \in TimerIds : tm_timers[t].pc = "new"}

InitTimerVars ==
    /\ tm_timers = [t \in TimerIds |-> [pc |-> "new", finished |-> FALSE]]
    /\ tm_timeout_thread = 0
    /\ tm_running_handler = "none"
    /\ tm_port \in HostingPorts
    /\ tm_backup_port = tm_port
    /\ tm_start_type = "none"
    /\ tm_request = [pc |-> "idle", timer |-> 0]
    /\ tm_diffused = {}

\* The hosting settings are changed: the previous value is kept as the
\* backup and the server restarts with RESTART_HOSTING_CHANGES.
UpdateHosting ==
    /\ tm_request.pc = "idle"
    /\ tm_start_type = "none"
    /\ FreeTimers # {}
    /\ \E port \in HostingPorts \ {tm_port} :
         /\ tm_backup_port' = tm_port
         /\ tm_port' = port
    /\ tm_start_type' = "RESTART_HOSTING_CHANGES"
    /\ UNCHANGED <<tm_timers, tm_timeout_thread, tm_running_handler,
                   tm_request, tm_diffused>>
    /\ UNCHANGED nonTimerVars

\* StartTypeHandlers.start_timer: an alive timer is cancelled, and a new
\* one is created and started for the handler of the start type.
start_timer ==
    /\ tm_request.pc = "idle"
    /\ tm_start_type # "none"
    /\ IF tm_start_type \notin handlers
       THEN UNCHANGED <<tm_timers, tm_timeout_thread, tm_running_handler>>
       ELSE \E new \in FreeTimers :
              /\ new = CHOOSE t \in FreeTimers : \A u \in FreeTimers : t <= u
              /\ tm_timers' =
                   [t \in TimerIds |->
                      IF t = new
                      THEN [pc |-> "waiting", finished |-> FALSE]
                      ELSE IF t = tm_timeout_thread /\ is_alive(t)
                      THEN [tm_timers[t] EXCEPT !.finished = TRUE]
                      ELSE tm_timers[t]]
              /\ tm_timeout_thread' = new
              /\ tm_running_handler' = tm_start_type
    /\ tm_start_type' = "none"
    /\ UNCHANGED <<tm_port, tm_backup_port, tm_request, tm_diffused>>
    /\ UNCHANGED nonTimerVars

\* Timer.run, first half: finished.wait(interval) returns, on the timeout
\* or on cancel(), and the event is tested.
TimerRun(t) ==
    /\ tm_timers[t].pc = "waiting"
    /\ tm_timers' =
         [tm_timers EXCEPT ![t] =
            IF tm_timers[t].finished
            THEN [pc |-> "done", finished |-> TRUE]
            ELSE [pc |-> "fired", finished |-> FALSE]]
    /\ UNCHANGED <<tm_timeout_thread, tm_running_handler, tm_port,
                   tm_backup_port, tm_start_type, tm_request, tm_diffused>>
    /\ UNCHANGED nonTimerVars

\* HostingChangesHandler.on_timeout, called by _on_timeout_wrapper:
\* Settings().restore_hosting_settings().
on_timeout(t) ==
    /\ tm_timers[t].pc = "fired"
    /\ tm_port' = tm_backup_port
    /\ tm_timers' = [tm_timers EXCEPT ![t].pc = "restored"]
    /\ UNCHANGED <<tm_timeout_thread, tm_running_handler, tm_backup_port,
                   tm_start_type, tm_request, tm_diffused>>
    /\ UNCHANGED nonTimerVars

\* _on_timeout_wrapper, restart_on_timeout: Server().restart(); then
\* Timer.run sets finished and the thread ends.
TimerRestart(t) ==
    /\ tm_timers[t].pc = "restored"
    /\ tm_start_type' = "RESTART"
    /\ tm_timers' = [tm_timers EXCEPT ![t] = [pc |-> "done", finished |-> TRUE]]
    /\ UNCHANGED <<tm_timeout_thread, tm_running_handler, tm_port,
                   tm_backup_port, tm_request, tm_diffused>>
    /\ UNCHANGED nonTimerVars

\* StartTypeHandlers.diffuse_timer(start_type), on an authenticated API
\* request: the two early returns.
diffuse_timer(start_type) ==
    /\ tm_request.pc = "idle"
    /\ IF tm_running_handler # start_type
       THEN UNCHANGED tm_request
       ELSE IF ~(tm_timeout_thread # 0 /\ is_alive(tm_timeout_thread))
       THEN UNCHANGED tm_request
       ELSE tm_request' = [pc |-> "cancel", timer |-> tm_timeout_thread]
    /\ UNCHANGED <<tm_timers, tm_timeout_thread, tm_running_handler, tm_port,
                   tm_backup_port, tm_start_type, tm_diffused>>
    /\ UNCHANGED nonTimerVars

\* diffuse_timer, after the tests: Timer.cancel() sets finished,
\* timeout_thread and running_handler are cleared, on_diffuse does nothing.
diffuse_timer_cancel ==
    /\ tm_request.pc = "cancel"
    /\ tm_timers' = [tm_timers EXCEPT ![tm_request.timer].finished = TRUE]
    /\ tm_timeout_thread' = 0
    /\ tm_running_handler' = "none"
    /\ tm_request' = [pc |-> "idle", timer |-> 0]
    /\ tm_diffused' = tm_diffused \cup {tm_request.timer}
    /\ UNCHANGED <<tm_port, tm_backup_port, tm_start_type>>
    /\ UNCHANGED nonTimerVars

NextTimer ==
    \/ UpdateHosting
    \/ start_timer
    \/ \E t \in TimerIds : TimerRun(t)
    \/ \E t \in TimerIds : on_timeout(t)
    \/ \E t \in TimerIds : TimerRestart(t)
    \/ \E start_type \in StartTypes : diffuse_timer(start_type)
    \/ diffuse_timer_cancel

InitTimer == InitTimerVars /\ IdleNonTimerVars

SpecTimer == InitTimer /\ [][NextTimer]_vars

\* A step in which timer t carries out on_timeout or the restart.
TimeoutTakesEffect(t) ==
    /\ tm_timers[t].pc \in {"fired", "restored"}
    /\ tm_timers'[t].pc # tm_timers[t].pc

\* C30: once diffuse_timer has returned for the start type whose revert
\* timer is running, that timer does not restore the previous hosting
\* settings or restart the server afterwards, whatever the interleaving
\* of the request thread and the timer thread.
C30_DiffusedTimerHasNoEffect ==
    [][\A t \in tm_diffused : ~TimeoutTakesEffect(t)]_vars

====
